---- MODULE Spec2Model ----
(***************************************************************************)
(* Clinical Trial Dashboard: the data reconciliation and derivation engine *)
(* (src/utils/data_processing.py), the generation step and the timeline    *)
(* builder (src/app.py) and the month extractor of the screening tab       *)
(* (src/components/screening_tab.py).                                      *)
(*                                                                         *)
(* A DataFrame is a record [cols, rows]: cols is the sequence of column    *)
(* names, rows the sequence of rows, each row a function from the column   *)
(* names to cells.  A cell is a record [k, n, s]: k is its kind ("num",    *)
(* "str", "date" or "nan"), n its number (a count, or a day number for a   *)
(* date) and s its text, a sequence of characters.  Python's None is the   *)
(* record None.  Floating-point values are modelled as exact rationals     *)
(* [n, d]; where the float computation can differ from the exact one (a    *)
(* quotient exactly halfway between two integers) the model allows both    *)
(* outcomes.                                                               *)
(***************************************************************************)
EXTENDS Integers, Sequences, FiniteSets, TLC

VARIABLES
    session_state,  \* st.session_state: the nine slots of init_session_state
    last_run,       \* what the last process_data call returned and showed
    today,          \* datetime.now(), as an index into Clock
    args,           \* the arguments of the function call under study
    result          \* its return value

vars == <<session_state, last_run, today, args, result>>

----------------------------------------------------------------------------
(* Values *)

None == [none |-> TRUE]

Num(n) == [k |-> "num", n |-> n, s |-> <<>>]
Txt(s) == [k |-> "str", n |-> 0, s |-> s]
Date(d) == [k |-> "date", n |-> d, s |-> <<>>]
NaN == [k |-> "nan", n |-> 0, s |-> <<>>]

\* pd.notnull / pd.isna on a cell
notnull(c) == c.k # "nan"

Ok(v) == [ok |-> TRUE, val |-> v]
Raise(e) == [ok |-> FALSE, val |-> e]

DataFrame(cols, rows) == [cols |-> cols, rows |-> rows]

Range(seq) == {seq[i] : i \in DOMAIN seq}

HasCol(df, c) == c \in Range(df.cols)

\* df[c] = values: a new column is appended, an existing one is overwritten
SetCol(df, c, values) ==
    DataFrame(IF HasCol(df, c) THEN df.cols ELSE Append(df.cols, c),
              [i \in DOMAIN df.rows |->
                  [x \in DOMAIN df.rows[i] \cup {c} |->
                      IF x = c THEN values[i] ELSE df.rows[i][x]]])

Column(df, c) == [i \in DOMAIN df.rows |-> df.rows[i][c]]

RECURSIVE SumSeq(_)
SumSeq(cells) ==
    IF cells = <<>> THEN 0
    ELSE (IF Head(cells).k = "num" THEN Head(cells).n ELSE 0) + SumSeq(Tail(cells))

\* df[c].sum(): NaN cells are skipped
Sum(df, c) == SumSeq(Column(df, c))

\* df[df[c] == v]
Where(df, c, v) == DataFrame(df.cols, SelectSeq(df.rows, LAMBDA r : r[c] = v))

----------------------------------------------------------------------------
(* Text *)

DigitChar == <<"0", "1", "2", "3", "4", "5", "6", "7", "8", "9">>

IsDigit(ch) == ch \in Range(DigitChar)

DigitValue(ch) == CHOOSE v \in 0..9 : DigitChar[v + 1] = ch

\* str(n) of a non-negative int
RECURSIVE StrInt(_)
StrInt(n) ==
    IF n < 10 THEN <<DigitChar[n + 1]>>
    ELSE StrInt(n \div 10) \o <<DigitChar[(n % 10) + 1]>>

\* int(text) of a text made of digits
RECURSIVE IntOfDigits(_)
IntOfDigits(s) ==
    IF s = <<>> THEN 0
    ELSE 10 * IntOfDigits(SubSeq(s, 1, Len(s) - 1)) + DigitValue(s[Len(s)])

IsDigits(s) == s # <<>> /\ \A i \in DOMAIN s : IsDigit(s[i])

\* str(value) of a cell value: text is kept as it is, leading zeros included;
\* a number is written in decimal, so it never has a leading zero
str(c) ==
    CASE c.k = "str" -> c.s
      [] c.k = "num" -> StrInt(c.n)
      [] OTHER -> <<"n", "a", "n">>

----------------------------------------------------------------------------
(* Schema reconciler: src/utils/data_processing.py *)

\* Headers that are not text (a number or a date read from a spreadsheet's
\* first row): they have no strip method
NonTextHeaders == {"#2025", "#2025-01-01"}

\* col.strip() on the headers the model's files use
strip(h) ==
    CASE h = " Screened" -> "Screened"
      [] h = "Randomized " -> "Randomized"
      [] h = " Site ID " -> "Site ID"
      [] h = "Site Number " -> "Site Number"
      [] OTHER -> h

\* df.columns = [col.strip() for col in df.columns]
StripColumns(df) ==
    DataFrame([i \in DOMAIN df.cols |-> strip(df.cols[i])],
              [i \in DOMAIN df.rows |->
                  [x \in {strip(c) : c \in DOMAIN df.rows[i]} |->
                      df.rows[i][CHOOSE c \in DOMAIN df.rows[i] : strip(c) = x]]])

RECURSIVE LastAlt(_, _)
\* the last synonym that is a column of df, "" when there is none
LastAlt(df, alts) ==
    IF alts = <<>> THEN ""
    ELSE IF HasCol(df, alts[Len(alts)]) THEN alts[Len(alts)]
    ELSE LastAlt(df, SubSeq(alts, 1, Len(alts) - 1))

RECURSIVE FirstAlt(_, _)
\* the first synonym that is a column of df, "" when there is none
FirstAlt(df, alts) ==
    IF alts = <<>> THEN ""
    ELSE IF HasCol(df, Head(alts)) THEN Head(alts)
    ELSE FirstAlt(df, Tail(alts))

RECURSIVE FillMissing(_, _, _)
\* for missing in missing_cols: for alt in alt_cols.get(missing, []): ...
FillMissing(df, missing_cols, alt_cols) ==
    IF missing_cols = <<>> THEN df
    ELSE LET missing == Head(missing_cols)
             alt == FirstAlt(df, alt_cols[missing])
             filled == IF alt = "" THEN df ELSE SetCol(df, missing, Column(df, alt))
         IN  FillMissing(filled, Tail(missing_cols), alt_cols)

MissingCols(df, req_cols) == SelectSeq(req_cols, LAMBDA c : ~HasCol(df, c))

\* pd.to_numeric(errors='coerce') on one cell
to_numeric(c) ==
    CASE c.k = "num" -> c
      [] c.k = "str" /\ IsDigits(c.s) -> Num(IntOfDigits(c.s))
      [] c.k = "str" /\ c.s # <<>> /\ Head(c.s) = "-" /\ IsDigits(Tail(c.s)) ->
             Num(0 - IntOfDigits(Tail(c.s)))
      [] OTHER -> NaN

fillna0(c) == IF c.k = "nan" THEN Num(0) ELSE c

\* The texts pd.to_datetime parses, with their day numbers (days since
\* 1970-01-01)
DateOfText ==
    (<<"2025-01-01">> :> 20089) @@ (<<"2025-01-11">> :> 20099)

\* pd.to_datetime(errors='coerce') on one cell; a number is a count of
\* nanoseconds since the epoch
to_datetime(c) ==
    CASE c.k = "date" -> c
      [] c.k = "num" -> Date(0)
      [] c.k = "str" /\ c.s \in DOMAIN DateOfText -> Date(DateOfText[c.s])
      [] OTHER -> NaN

EnrollmentReqCols ==
    <<"Site ID", "Site Name", "Country", "Screened", "Screen Failed", "Randomized">>

EnrollmentAltCols ==
    ("Site ID" :> <<"SiteID", "Site Number", "Site">>) @@
    ("Site Name" :> <<"Site", "Center Name", "Center">>) @@
    ("Country" :> <<"Region", "Nation", "Location">>) @@
    ("Screened" :> <<"Total Screened", "Screening", "Screenings">>) @@
    ("Screen Failed" :> <<"Screen Fails", "Failed", "Failed Screening">>) @@
    ("Randomized" :> <<"Enrolled", "Randomizations", "Total Randomized">>)

coerce_count(c) == fillna0(to_numeric(c))

\* for col in numeric_cols: if col in df.columns:
\*     df[col] = pd.to_numeric(df[col], errors='coerce').fillna(0)
CoerceCounts(df, numeric_cols) ==
    DataFrame(df.cols,
              [i \in DOMAIN df.rows |->
                  [x \in DOMAIN df.rows[i] |->
                      IF x \in Range(numeric_cols) THEN coerce_count(df.rows[i][x])
                      ELSE df.rows[i][x]]])

\* for col in date_cols: if col in df.columns:
\*     df[col] = pd.to_datetime(df[col], errors='coerce')
CoerceDates(df, date_cols) ==
    DataFrame(df.cols,
              [i \in DOMAIN df.rows |->
                  [x \in DOMAIN df.rows[i] |->
                      IF x \in Range(date_cols) THEN to_datetime(df.rows[i][x])
                      ELSE df.rows[i][x]]])

process_enrollment_data(enrollment_df) ==
    IF \E c \in Range(enrollment_df.cols) : c \in NonTextHeaders
    THEN Raise("AttributeError")
    ELSE LET df == StripColumns(enrollment_df)
             filled == FillMissing(df, MissingCols(df, EnrollmentReqCols),
                                   EnrollmentAltCols)
         IN  Ok(CoerceCounts(filled, <<"Screened", "Screen Failed", "Randomized">>))

MonthlyReqCols == <<"Site ID", "Site Name", "Status", "Country", "Subject Status">>

MonthlyAltCols ==
    ("Site ID" :> <<"SiteID", "Site Number", "Site">>) @@
    ("Site Name" :> <<"Site", "Center Name", "Center">>) @@
    ("Status" :> <<"Site Status", "Active Status", "Status">>) @@
    ("Country" :> <<"Region", "Nation", "Location">>) @@
    ("Subject Status" :> <<"Status", "Participant Status", "Patient Status">>)

process_monthly_data(monthly_df) ==
    IF \E c \in Range(monthly_df.cols) : c \in NonTextHeaders
    THEN Raise("AttributeError")
    ELSE LET df == StripColumns(monthly_df)
             filled == FillMissing(df, MissingCols(df, MonthlyReqCols), MonthlyAltCols)
         IN  Ok(CoerceDates(filled, <<"1st Screening", "1st Enrollment">>))

SiteReqCols == <<"Site Number", "Country", "Site Activated Date">>

SiteAltCols ==
    ("Site Number" :> <<"Site ID", "SiteID", "Site">>) @@
    ("Country" :> <<"Region", "Nation", "Location">>) @@
    ("Site Activated Date" :> <<"Activation Date", "Activated On", "Date Activated">>)

process_site_data(site_df) ==
    IF \E c \in Range(site_df.cols) : c \in NonTextHeaders
    THEN Raise("AttributeError")
    ELSE LET df == StripColumns(site_df)
             filled == FillMissing(df, MissingCols(df, SiteReqCols), SiteAltCols)
         IN  Ok(CoerceDates(filled,
                            <<"Site Activated Date", "First Subject Screened Date",
                              "First Subject Enrolled Date">>))

----------------------------------------------------------------------------
(* Site timeline builder: src/app.py *)

\* row.get(c, default)
get(row, c, default) == IF c \in DOMAIN row THEN row[c] ELSE default

RECURSIVE lstrip(_)
lstrip(s) == IF s # <<>> /\ Head(s) = " " THEN lstrip(Tail(s)) ELSE s

RECURSIVE rstrip(_)
rstrip(s) ==
    IF s # <<>> /\ s[Len(s)] = " " THEN rstrip(SubSeq(s, 1, Len(s) - 1)) ELSE s

\* text.strip()
strip_text(s) == rstrip(lstrip(s))

RECURSIVE drop_duplicates(_)
\* the first occurrence of every row, in order
drop_duplicates(rows) ==
    IF rows = <<>> THEN <<>>
    ELSE LET front == SubSeq(rows, 1, Len(rows) - 1)
             last == rows[Len(rows)]
         IN  IF last \in Range(front) THEN drop_duplicates(front)
             ELSE Append(drop_duplicates(front), last)

SiteKeyCols ==
    <<"Site ID", "Site Name", "Status", "Country", "1st Screening", "1st Enrollment">>

ActivationCols ==
    <<"Country", "Site Number", "Investigator", "Site Status",
      "Date of First Screening", "Date of First Randomization">>

\* One appended dict of extract_activation_data; row is a row of the six-column
\* selection, so it has no PI column
ActivationRow(row) ==
    ("Country" :> row["Country"]) @@
    ("Site Number" :> Txt(str(row["Site ID"]))) @@
    ("Investigator" :>
        Txt(strip_text(get(row, "PI First Name", Txt(<<>>)).s \o <<" ">>
                       \o get(row, "PI Last Name", Txt(<<>>)).s))) @@
    ("Site Status" :> row["Status"]) @@
    ("Date of First Screening" :> get(row, "1st Screening", NaN)) @@
    ("Date of First Randomization" :> get(row, "1st Enrollment", NaN))

extract_activation_data(monthly_data) ==
    IF \E c \in Range(SiteKeyCols) : ~HasCol(monthly_data, c)
    THEN Raise("KeyError")
    ELSE LET selected == [i \in DOMAIN monthly_data.rows |->
                             [c \in Range(SiteKeyCols) |-> monthly_data.rows[i][c]]]
             sites == drop_duplicates(selected)
         IN  IF sites = <<>> THEN Ok(DataFrame(<<>>, <<>>))
             ELSE Ok(DataFrame(ActivationCols,
                               [i \in DOMAIN sites |-> ActivationRow(sites[i])]))

\* The assignment made on every row, whatever the mask
SetActivation_every_row(activation_data, mask, value) ==
    SetCol(activation_data, "Date of Activation",
           [i \in DOMAIN activation_data.rows |-> value])

\* activation_data.loc[mask, 'Date of Activation'] = value
SetActivation(activation_data, mask, value) ==
    SetCol(activation_data, "Date of Activation",
           [i \in DOMAIN activation_data.rows |->
               IF mask[i] THEN value
               ELSE get(activation_data.rows[i], "Date of Activation", NaN)])

RECURSIVE UpdateFromRows(_, _)
\* the loop of update_activation_dates over the rows of the site table
UpdateFromRows(activation_data, site_rows) ==
    IF site_rows = <<>> THEN Ok(activation_data)
    ELSE LET row == Head(site_rows)
         IN  IF "Site Number" \notin DOMAIN row
                \/ ~HasCol(activation_data, "Site Number")
             THEN Raise("KeyError")
             ELSE LET site_id == str(row["Site Number"])
                      mask == [i \in DOMAIN activation_data.rows |->
                                  activation_data.rows[i]["Site Number"].s = site_id]
                      date == get(row, "Site Activated Date", NaN)
                      hit == (\E i \in DOMAIN mask : mask[i]) /\ notnull(date)
                  IN  UpdateFromRows(
                          IF hit THEN SetActivation(activation_data, mask, date)
                          ELSE activation_data,
                          Tail(site_rows))

\* The table activation_data refers to after the call (it is updated in
\* place), or the exception raised
update_activation_dates(activation_data, site_data) ==
    IF activation_data # None /\ site_data # None
    THEN UpdateFromRows(activation_data, site_data.rows)
    ELSE Ok(activation_data)

----------------------------------------------------------------------------
(* COSL assignment: src/utils/data_processing.py *)

\* col.lower() of the headers the model's site files use, as characters
lower ==
    ("Site Number" :> <<"s","i","t","e"," ","n","u","m","b","e","r">>) @@
    ("Site ID" :> <<"s","i","t","e"," ","i","d">>) @@
    ("Country" :> <<"c","o","u","n","t","r","y">>) @@
    ("Region" :> <<"r","e","g","i","o","n">>) @@
    ("Site Activated Date" :>
        <<"s","i","t","e"," ","a","c","t","i","v","a","t","e","d"," ","d","a","t","e">>) @@
    ("Activation Date" :>
        <<"a","c","t","i","v","a","t","i","o","n"," ","d","a","t","e">>) @@
    ("COSL" :> <<"c","o","s","l">>) @@
    ("PI Name" :> <<"p","i"," ","n","a","m","e">>) @@
    ("Investigator" :> <<"i","n","v","e","s","t","i","g","a","t","o","r">>) @@
    ("Hospital" :> <<"h","o","s","p","i","t","a","l">>)

\* sub in text
contains(text, sub) ==
    \E i \in 1..(Len(text) - Len(sub) + 1) : SubSeq(text, i, i + Len(sub) - 1) = sub

is_cosl_col(col) == contains(lower[col], <<"c","o","s","l">>)

is_pi_col(col) ==
    \/ contains(lower[col], <<"p","i">>)
    \/ contains(lower[col], <<"i","n","v","e","s","t","i","g","a","t","o","r">>)

\* next((col for col in df.columns if 'cosl' in col.lower()), None), "" for
\* None
first_cosl_col(cols) ==
    IF \E i \in DOMAIN cols : is_cosl_col(cols[i])
    THEN cols[CHOOSE i \in DOMAIN cols :
                  is_cosl_col(cols[i]) /\ \A j \in 1..(i - 1) : ~is_cosl_col(cols[j])]
    ELSE ""

\* next((col for col in df.columns if 'pi' in col.lower() or 'investigator' in
\* col.lower()), None), "" for None
first_pi_col(cols) ==
    IF \E i \in DOMAIN cols : is_pi_col(cols[i])
    THEN cols[CHOOSE i \in DOMAIN cols :
                  is_pi_col(cols[i]) /\ \A j \in 1..(i - 1) : ~is_pi_col(cols[j])]
    ELSE ""

cosl_names ==
    <<"Evelina Pogoriler", "Jayden Cho", "Janice Graboso", "Farah Ridore",
      "Malini Shankar">>

\* df[['Site Number', col]].rename(columns={col: 'Assigned COSL'})
AssignFrom(df, col) ==
    DataFrame(<<"Site Number", "Assigned COSL">>,
              [i \in DOMAIN df.rows |->
                  ("Site Number" :> df.rows[i]["Site Number"]) @@
                  ("Assigned COSL" :> df.rows[i][col])])

\* unique() returning the column as it is, repeats included
unique_keeping_repeats(cells) == cells

\* df['Site Number'].unique(): the distinct values in order of first appearance
unique(cells) == drop_duplicates(cells)

generate_cosl_data(df) ==
    LET cosl_col == first_cosl_col(df.cols)
        pi_col == first_pi_col(df.cols)
        unique_sites == unique(Column(df, "Site Number"))
    IN  IF ~HasCol(df, "Site Number") THEN Raise("KeyError")
        ELSE IF cosl_col # "" THEN Ok(AssignFrom(df, cosl_col))
        ELSE IF pi_col # "" THEN Ok(AssignFrom(df, pi_col))
        ELSE IF unique_sites = <<>> THEN Ok(DataFrame(<<>>, <<>>))
        ELSE Ok(DataFrame(<<"Site Number", "Assigned COSL">>,
                          [i \in DOMAIN unique_sites |->
                              ("Site Number" :> unique_sites[i]) @@
                              ("Assigned COSL" :>
                                  Txt(<<cosl_names[((i - 1) % Len(cosl_names)) + 1]>>))]))

----------------------------------------------------------------------------
(* Screen-failure rate: src/utils/data_processing.py *)

\* A rate is the exact rational n / d, d > 0
Rat(n, d) == [n |-> n, d |-> d]

RatLT(a, b) == a.n * b.d < b.n * a.d
RatEQ(a, b) == a.n * b.d = b.n * a.d
RatGE(a, b) == ~RatLT(a, b)

DEFAULT_SCREEN_FAILURE_RATE == 50

\* (total_failed / total_screened) * 100
Percentage(total_failed, total_screened) == Rat(100 * total_failed, total_screened)

\* The alternative calculation from the monthly table (lines 199-211):
\* a rate, or None when it gives none
MonthlyRate(monthly_data) ==
    LET statuses == Range(Column(monthly_data, "Subject Status"))
        screened_data == Where(monthly_data, "Subject Status", Txt(<<"Screened">>))
        failed_data == Where(monthly_data, "Subject Status", Txt(<<"Screen Failed">>))
    IN  IF Txt(<<"Screen Failed">>) \in statuses /\ Txt(<<"Screened">>) \in statuses
           /\ HasCol(screened_data, "Total") /\ HasCol(failed_data, "Total")
           /\ Sum(screened_data, "Total") > 0
        THEN Percentage(Sum(failed_data, "Total"), Sum(screened_data, "Total"))
        ELSE None

\* The calculation from the enrollment table (lines 191-197), or None
EnrollmentRate(enrollment_data) ==
    IF HasCol(enrollment_data, "Screen Failed") /\ HasCol(enrollment_data, "Screened")
       /\ Sum(enrollment_data, "Screened") > 0
    THEN Percentage(Sum(enrollment_data, "Screen Failed"),
                    Sum(enrollment_data, "Screened"))
    ELSE None

\* calculate_screen_failure_rate trying the monthly table before the
\* enrollment table
calculate_screen_failure_rate_monthly_first(enrollment_data, monthly_data, sf_rate_override) ==
    IF RatLT(Rat(0, 1), sf_rate_override) THEN Ok(sf_rate_override)
    ELSE IF ~HasCol(monthly_data, "Subject Status") THEN Raise("KeyError")
    ELSE IF MonthlyRate(monthly_data) # None THEN Ok(MonthlyRate(monthly_data))
    ELSE IF EnrollmentRate(enrollment_data) # None
    THEN Ok(EnrollmentRate(enrollment_data))
    ELSE Ok(Rat(DEFAULT_SCREEN_FAILURE_RATE, 1))

calculate_screen_failure_rate(enrollment_data, monthly_data, sf_rate_override) ==
    IF RatLT(Rat(0, 1), sf_rate_override) THEN Ok(sf_rate_override)
    ELSE IF EnrollmentRate(enrollment_data) # None
    THEN Ok(EnrollmentRate(enrollment_data))
    ELSE IF ~HasCol(monthly_data, "Subject Status") THEN Raise("KeyError")
    ELSE IF MonthlyRate(monthly_data) # None THEN Ok(MonthlyRate(monthly_data))
    ELSE Ok(Rat(DEFAULT_SCREEN_FAILURE_RATE, 1))

----------------------------------------------------------------------------
(* Screenings needed and projections *)

SATURATION_FACTOR == 5

\* int(n / d) in place of round(n / d): the quotient truncated
round_truncating(n, d) == {n \div d}

\* round(n / d) for d > 0, the quotient being computed in floating point: the
\* nearest integer; when n / d is exactly halfway between two integers the
\* float quotient can fall on either side of the tie (and an exact tie goes to
\* the even neighbour), so either neighbour is a possible result
round(n, d) ==
    LET q == n \div d
        r == n % d
    IN  IF 2 * r < d THEN {q}
        ELSE IF 2 * r > d THEN {q + 1}
        ELSE {q, q + 1}

\* The target multiplied by the share that passes screening
screenings_needed_multiplying(target_enrollment, screen_failure_rate) ==
    IF RatLT(screen_failure_rate, Rat(100, 1))
    THEN round(target_enrollment
                   * (100 * screen_failure_rate.d - screen_failure_rate.n),
               100 * screen_failure_rate.d)
    ELSE {target_enrollment * SATURATION_FACTOR}

\* round(target / (1 - rate/100)) if rate < 100 else target * 5
\* (data_processing.py:236), as the set of possible results
screenings_needed(target_enrollment, screen_failure_rate) ==
    IF RatLT(screen_failure_rate, Rat(100, 1))
    THEN round(100 * screen_failure_rate.d * target_enrollment,
               100 * screen_failure_rate.d - screen_failure_rate.n)
    ELSE {target_enrollment * SATURATION_FACTOR}

\* The same expression in render_enrollment_tab (enrollment_tab.py:144)
tab_screenings_needed(target_enrollment, screen_failure_rate) ==
    IF RatLT(screen_failure_rate, Rat(100, 1))
    THEN round(100 * screen_failure_rate.d * target_enrollment,
               100 * screen_failure_rate.d - screen_failure_rate.n)
    ELSE {target_enrollment * SATURATION_FACTOR}

\* round(rate, 1) if rate is not None else 0 (app.py:289): tenths of a percent
overview_rate(screen_failure_rate) ==
    IF screen_failure_rate = None THEN {Rat(0, 10)}
    ELSE {Rat(k, 10) : k \in round(10 * screen_failure_rate.n, screen_failure_rate.d)}

\* The overview card's value with target * 4 for the saturated case
overview_screenings_needed_times4(target_enrollment, screen_failure_rate) ==
    UNION {IF RatLT(screen_fail_rate, Rat(100, 1))
           THEN round(100 * screen_fail_rate.d * target_enrollment,
                      100 * screen_fail_rate.d - screen_fail_rate.n)
           ELSE {target_enrollment * 4} :
           screen_fail_rate \in overview_rate(screen_failure_rate)}

\* The overview card's value (app.py:290), computed from the rounded rate
overview_screenings_needed(target_enrollment, screen_failure_rate) ==
    UNION {IF RatLT(screen_fail_rate, Rat(100, 1))
           THEN round(100 * screen_fail_rate.d * target_enrollment,
                      100 * screen_fail_rate.d - screen_fail_rate.n)
           ELSE {target_enrollment * SATURATION_FACTOR} :
           screen_fail_rate \in overview_rate(screen_failure_rate)}

\* Calendar
Day(y, m, d) == [y |-> y, m |-> m, d |-> d]

DateLE(a, b) ==
    \/ a.y < b.y
    \/ a.y = b.y /\ a.m < b.m
    \/ a.y = b.y /\ a.m = b.m /\ a.d <= b.d

IsLeap(y) == (y % 4 = 0 /\ y % 100 # 0) \/ y % 400 = 0

\* calendar.monthrange(y, m)[1]
monthrange(y, m) ==
    IF m = 2 THEN (IF IsLeap(y) THEN 29 ELSE 28)
    ELSE IF m \in {4, 6, 9, 11} THEN 30 ELSE 31

NextMonthStart(a) == IF a.m = 12 THEN Day(a.y + 1, 1, 1) ELSE Day(a.y, a.m + 1, 1)

RECURSIVE date_range_MS_after_start(_, _)
\* The month starts after start: what date_range gives from a start that was
\* not moved to the first day of its month
date_range_MS_after_start(start, end) ==
    IF DateLE(NextMonthStart(start), end)
    THEN <<NextMonthStart(start)>>
             \o date_range_MS_after_start(NextMonthStart(start), end)
    ELSE <<>>

RECURSIVE date_range_MS(_, _)
\* pd.date_range(start, end, freq='MS') for a start that is a month start
date_range_MS(start, end) ==
    IF DateLE(start, end) THEN <<start>> \o date_range_MS(NextMonthStart(start), end)
    ELSE <<>>

MonthAbbr ==
    <<"Jan", "Feb", "Mar", "Apr", "May", "Jun", "Jul", "Aug", "Sep", "Oct", "Nov", "Dec">>

\* month.strftime('%b-%Y'), for a year of four digits
strftime_bY(a) == <<MonthAbbr[a.m], "-">> \o StrInt(a.y)

\* now.strftime('%d-%b-%Y')
strftime_dbY(a) ==
    (IF a.d < 10 THEN <<"0">> ELSE <<>>) \o StrInt(a.d)
        \o <<"-", MonthAbbr[a.m], "-">> \o StrInt(a.y)

\* generate_enrollment_projections counting the months of the cumulative
\* target from 0
generate_enrollment_projections_from0(enrollment_data, target_enrollment, projection_end, needed, now) ==
    LET current_cumulative == IF HasCol(enrollment_data, "Randomized")
                              THEN Sum(enrollment_data, "Randomized") ELSE 0
        start_date == Day(now.y, now.m, 1)
        end_date == Day(projection_end.y, projection_end.m,
                        monthrange(projection_end.y, projection_end.m))
        months == date_range_MS(start_date, end_date)
    IN  IF months = <<>> THEN DataFrame(<<>>, <<>>)
        ELSE DataFrame(
                <<"Month", "Target Randomizations", "Cumulative Target",
                  "Screenings Needed">>,
                [i \in DOMAIN months |->
                    ("Month" :> Txt(strftime_bY(months[i]))) @@
                    ("Target Randomizations" :> Num(target_enrollment)) @@
                    ("Cumulative Target" :>
                        Num(current_cumulative + (i - 1) * target_enrollment)) @@
                    ("Screenings Needed" :> Num(needed))])

\* generate_enrollment_projections, with datetime.now() = now and needed the
\* value of screenings_needed (one of screenings_needed(target, rate))
generate_enrollment_projections(enrollment_data, target_enrollment, projection_end, needed, now) ==
    LET current_cumulative == IF HasCol(enrollment_data, "Randomized")
                              THEN Sum(enrollment_data, "Randomized") ELSE 0
        start_date == Day(now.y, now.m, 1)
        end_date == Day(projection_end.y, projection_end.m,
                        monthrange(projection_end.y, projection_end.m))
        months == date_range_MS(start_date, end_date)
    IN  IF months = <<>> THEN DataFrame(<<>>, <<>>)
        ELSE DataFrame(
                <<"Month", "Target Randomizations", "Cumulative Target",
                  "Screenings Needed">>,
                [i \in DOMAIN months |->
                    ("Month" :> Txt(strftime_bY(months[i]))) @@
                    ("Target Randomizations" :> Num(target_enrollment)) @@
                    ("Cumulative Target" :>
                        Num(current_cumulative + i * target_enrollment)) @@
                    ("Screenings Needed" :> Num(needed))])

----------------------------------------------------------------------------
(* Uploaded files *)

\* An uploaded file is None (the slot is empty) or [tabular, table]: reading
\* it gives the table, or raises when the file is not tabular
File(table) == [tabular |-> TRUE, table |-> table]
NotTabular == [tabular |-> FALSE, table |-> DataFrame(<<>>, <<>>)]

\* pd.read_csv / pd.read_excel
read(file) == IF file.tabular THEN Ok(file.table) ELSE Raise("ParserError")

DropCol(df, c) ==
    DataFrame(SelectSeq(df.cols, LAMBDA x : x # c),
              [i \in DOMAIN df.rows |->
                  [x \in DOMAIN df.rows[i] \ {c} |-> df.rows[i][x]]])

RenameCol(df, old, new) ==
    DataFrame([i \in DOMAIN df.cols |-> IF df.cols[i] = old THEN new ELSE df.cols[i]],
              [i \in DOMAIN df.rows |->
                  [x \in (DOMAIN df.rows[i] \ {old}) \cup {new} |->
                      IF x = new THEN df.rows[i][old] ELSE df.rows[i][x]]])

EnrollmentCols ==
    <<"Site ID", "Site Name", "Country", "Screened", "Screen Failed", "Randomized">>

EnrollmentRow(site, country, screened, failed, randomized) ==
    ("Site ID" :> site) @@ ("Site Name" :> Txt(<<"Site ">> \o str(site))) @@
    ("Country" :> country) @@ ("Screened" :> screened) @@
    ("Screen Failed" :> failed) @@ ("Randomized" :> randomized)

MonthlyCols ==
    <<"Site ID", "Site Name", "PI First Name", "PI Last Name", "Status", "Country",
      "1st Screening", "1st Enrollment", "Subject Status", "Total">>

MonthlyRow(site, status, first_screening, first_enrollment, subject_status, total) ==
    ("Site ID" :> site) @@ ("Site Name" :> Txt(<<"Site ">> \o str(site))) @@
    ("PI First Name" :> Txt(<<"Ada">>)) @@ ("PI Last Name" :> Txt(<<"Lee">>)) @@
    ("Status" :> status) @@ ("Country" :> Txt(<<"US">>)) @@
    ("1st Screening" :> first_screening) @@ ("1st Enrollment" :> first_enrollment) @@
    ("Subject Status" :> subject_status) @@ ("Total" :> total)

SiteCols == <<"Site Number", "Country", "Site Activated Date">>

SiteRow(site, activated) ==
    ("Site Number" :> site) @@ ("Country" :> Txt(<<"US">>)) @@
    ("Site Activated Date" :> activated)

Active == Txt(<<"Active">>)
Screened == Txt(<<"Screened">>)
ScreenFailed == Txt(<<"Screen Failed">>)
Randomized == Txt(<<"Randomized">>)
US == Txt(<<"US">>)
Site007 == Txt(<<"0", "0", "7">>)

\* The enrollment files of the generation runs
EnrollmentA ==
    DataFrame(EnrollmentCols,
              <<EnrollmentRow(Site007, US, Num(20), Num(5), Num(15)),
                EnrollmentRow(Num(12), US, Num(10), Num(5), Num(5))>>)

\* synonyms and padded headers; no screening counted yet
EnrollmentB ==
    RenameCol(RenameCol(RenameCol(
        DataFrame(EnrollmentCols,
                  <<EnrollmentRow(Num(12), US, Txt(<<"n", "/", "a">>), NaN, Num(3))>>),
        "Screened", " Screened"), "Screen Failed", "Failed"), "Randomized", "Enrolled")

EnrollmentNonText == RenameCol(EnrollmentA, "Country", "#2025")

EnrollmentFiles == {None, File(EnrollmentA), File(EnrollmentB), File(EnrollmentNonText)}

MonthlyA ==
    DataFrame(MonthlyCols,
              <<MonthlyRow(Site007, Active, Date(20099), NaN, Screened, Num(4)),
                MonthlyRow(Site007, Active, Date(20099), NaN, ScreenFailed, Num(1)),
                MonthlyRow(Num(12), Active, NaN, NaN, Screened, Num(0))>>)

MonthlyFiles ==
    {None, NotTabular, File(MonthlyA), File(DropCol(MonthlyA, "1st Enrollment"))}

SiteA ==
    DataFrame(SiteCols, <<SiteRow(Site007, Date(20089)), SiteRow(Num(12), NaN)>>)

SiteFiles ==
    {None, File(SiteA), File(DropCol(SiteA, "Site Number")),
     File(DataFrame(<<"Country">>, <<>>))}

----------------------------------------------------------------------------
(* The generation step: src/app.py *)

Slots ==
    {"enrollment_data", "activation_data", "monthly_data", "site_data", "cosl_data",
     "enrollment_projections", "screen_failure_rate", "dashboard_date",
     "dashboard_generated"}

\* A session that starts with the dashboard flagged as generated
init_session_state_generated(now) ==
    [enrollment_data |-> None, activation_data |-> None, monthly_data |-> None,
     site_data |-> None, cosl_data |-> None, enrollment_projections |-> None,
     screen_failure_rate |-> None, dashboard_date |-> strftime_dbY(now),
     dashboard_generated |-> TRUE]

\* st.session_state after init_session_state on a new session
init_session_state(now) ==
    [enrollment_data |-> None, activation_data |-> None, monthly_data |-> None,
     site_data |-> None, cosl_data |-> None, enrollment_projections |-> None,
     screen_failure_rate |-> None, dashboard_date |-> strftime_dbY(now),
     dashboard_generated |-> FALSE]

\* What a call of process_data leaves: the session state, the value returned
\* and the message shown (st.warning, st.error or st.success)
Outcome(state, ret, shown) == [state |-> state, ret |-> ret, shown |-> shown]

\* Lines 198-219: every file is loaded; S is the session state at that point
Derive(S, target_enrollment, projection_end, sf_rate_override, now) ==
    LET cosl == generate_cosl_data(S.site_data)
        S1 == [S EXCEPT !.cosl_data = cosl.val]
        rate == calculate_screen_failure_rate(S1.enrollment_data, S1.monthly_data,
                                              sf_rate_override)
        S2 == [S1 EXCEPT !.screen_failure_rate = rate.val]
    IN  IF ~cosl.ok THEN {Outcome(S, FALSE, "error")}
        ELSE IF ~rate.ok THEN {Outcome(S1, FALSE, "error")}
        ELSE {Outcome([S2 EXCEPT
                          !.enrollment_projections =
                              generate_enrollment_projections(
                                  S2.enrollment_data, target_enrollment,
                                  projection_end, needed, now),
                          !.dashboard_generated = TRUE,
                          !.dashboard_date = strftime_dbY(now)],
                      TRUE, "success") :
              needed \in screenings_needed(target_enrollment, rate.val)}

\* Lines 183-196: the enrollment and monthly files are loaded
LoadSite(S, site_file, target_enrollment, projection_end, sf_rate_override, now) ==
    LET site_df == read(site_file)
        site_data == process_site_data(site_df.val)
        S1 == [S EXCEPT !.site_data = site_data.val]
        updated == update_activation_dates(S1.activation_data, S1.site_data)
        S2 == [S1 EXCEPT !.activation_data = updated.val]
    IN  IF site_file = None THEN {Outcome(S, FALSE, "warning")}
        ELSE IF ~site_df.ok \/ ~site_data.ok THEN {Outcome(S, FALSE, "error")}
        ELSE IF ~updated.ok THEN {Outcome(S1, FALSE, "error")}
        ELSE Derive(S2, target_enrollment, projection_end, sf_rate_override, now)

\* Lines 168-181: the enrollment file is loaded
LoadMonthly(S, monthly_file, site_file, target_enrollment, projection_end, sf_rate_override, now) ==
    LET monthly_df == read(monthly_file)
        monthly_data == process_monthly_data(monthly_df.val)
        S1 == [S EXCEPT !.monthly_data = monthly_data.val]
        activation == extract_activation_data(S1.monthly_data)
        S2 == [S1 EXCEPT !.activation_data = activation.val]
    IN  IF monthly_file = None THEN {Outcome(S, FALSE, "warning")}
        ELSE IF ~monthly_df.ok \/ ~monthly_data.ok THEN {Outcome(S, FALSE, "error")}
        ELSE IF ~activation.ok THEN {Outcome(S1, FALSE, "error")}
        ELSE LoadSite(S2, site_file, target_enrollment, projection_end,
                      sf_rate_override, now)

\* process_data: the set of its possible outcomes from session state S
process_data(S, enrollment_file, monthly_file, site_file, target_enrollment, projection_end, sf_rate_override, now) ==
    LET enrollment_df == read(enrollment_file)
        enrollment_data == process_enrollment_data(enrollment_df.val)
        S1 == [S EXCEPT !.enrollment_data = enrollment_data.val]
    IN  IF enrollment_file = None THEN {Outcome(S, FALSE, "warning")}
        ELSE IF ~enrollment_df.ok \/ ~enrollment_data.ok
        THEN {Outcome(S, FALSE, "error")}
        ELSE LoadMonthly(S1, monthly_file, site_file, target_enrollment,
                         projection_end, sf_rate_override, now)

----------------------------------------------------------------------------
(* The session: a user who presses Generate, on a day of Clock *)

MaxTarget == 2
MaxDay == 2

\* datetime.now() on the days of the session
Clock == <<Day(2025, 8, 31), Day(2025, 9, 1), Day(2025, 10, 1), Day(2026, 1, 1)>>

Now == Clock[today]

ProjectionEnds == {Day(2025, 9, 30)}

\* Values of the override input (0.0 to 100.0): 0 leaves it unused
Overrides == {Rat(0, 1), Rat(100, 1)}

NoRun == [ret |-> FALSE, shown |-> "none"]
NoCall == [f |-> "none"]

Init ==
    /\ today = 1
    /\ session_state = init_session_state(Now)
    /\ last_run = NoRun
    /\ args = NoCall
    /\ result = NoCall

\* main() with the Generate button pressed
Generate ==
    \E enrollment_file \in EnrollmentFiles, monthly_file \in MonthlyFiles,
       site_file \in SiteFiles, target_enrollment \in 1..MaxTarget,
       projection_end \in ProjectionEnds, sf_rate_override \in Overrides :
        \E out \in process_data(session_state, enrollment_file, monthly_file,
                                site_file, target_enrollment, projection_end,
                                sf_rate_override, Now) :
            /\ session_state' = out.state
            /\ last_run' = [ret |-> out.ret, shown |-> out.shown]
            /\ UNCHANGED <<today, args, result>>

\* Time passes between two runs of the script
NextDay ==
    /\ today < MaxDay
    /\ today' = today + 1
    /\ UNCHANGED <<session_state, last_run, args, result>>

Next == Generate \/ NextDay

Spec == Init /\ [][Next]_vars

----------------------------------------------------------------------------
(* Generation is all or nothing *)

\* C1: a process_data call that fails with an exception (it shows st.error)
\* returns with every session-state slot holding the value it held before
\* the call
C1_ExceptionLeavesStateUntouched ==
    [][last_run'.shown = "error" => session_state' = session_state]_vars

\* C2: a process_data call with an empty file slot (it shows st.warning and
\* returns False) changes no session-state slot
C2_MissingFilePublishesNothing ==
    [][last_run'.shown = "warning" =>
          /\ last_run'.ret = FALSE
          /\ session_state' = session_state]_vars

----------------------------------------------------------------------------
(* calculate_screen_failure_rate on the tables the generation step passes *)

MaxRows == 2
MaxCount == 2

\* Reconciled enrollment tables of 1..MaxRows sites with counts 0..MaxCount,
\* with and without the Screen Failed column
RateEnrollmentTables ==
    LET Counts == (0..MaxCount) \X (0..MaxCount)
        Table(cs) ==
            DataFrame(EnrollmentCols,
                      [i \in DOMAIN cs |->
                          EnrollmentRow(Num(i), US, Num(cs[i][1]), Num(cs[i][2]),
                                        Num(0))])
        Full == UNION {{Table(cs) : cs \in [1..n -> Counts]} : n \in 1..MaxRows}
    IN  {process_enrollment_data(t).val : t \in Full}
        \cup {process_enrollment_data(DropCol(t, "Screen Failed")).val : t \in Full}

\* Reconciled monthly tables: one site with a Screened row, a Screen Failed
\* row and a Randomized row, some of them without the Total column, the
\* Screen Failed rows or the Subject Status column (which the reconciler then
\* fills from Status)
RateMonthlyTables ==
    LET Table(screened, failed) ==
            DataFrame(MonthlyCols,
                      <<MonthlyRow(Site007, Active, NaN, NaN, Screened, Num(screened)),
                        MonthlyRow(Site007, Active, NaN, NaN, ScreenFailed, Num(failed)),
                        MonthlyRow(Site007, Active, NaN, NaN, Randomized, NaN)>>)
        NoFailed(t) == DataFrame(t.cols, SelectSeq(t.rows,
                           LAMBDA r : r["Subject Status"] # ScreenFailed))
        Raw == {Table(2, 1), Table(0, 1), Table(1, 2), Table(2, 0),
                DropCol(Table(2, 1), "Total"), NoFailed(Table(2, 1)),
                DropCol(Table(2, 1), "Subject Status")}
    IN  {m \in {process_monthly_data(t).val : t \in Raw} :
            extract_activation_data(m).ok}

RateOverrides == {Rat(0, 1), Rat(35, 1), Rat(100, 1)}

InitRate ==
    /\ today = 1
    /\ session_state = init_session_state(Now)
    /\ last_run = NoRun
    /\ args \in [f : {"calculate_screen_failure_rate"},
                 enrollment_data : RateEnrollmentTables,
                 monthly_data : RateMonthlyTables,
                 sf_rate_override : RateOverrides]
    /\ result = NoCall

CallRate ==
    /\ args.f = "calculate_screen_failure_rate"
    /\ result = NoCall
    /\ result' = [f |-> args.f,
                  out |-> calculate_screen_failure_rate(
                              args.enrollment_data, args.monthly_data,
                              args.sf_rate_override)]
    /\ UNCHANGED <<session_state, last_run, today, args>>

NextRate == CallRate

SpecRate == InitRate /\ [][NextRate]_vars

RateReturned == result # NoCall /\ result.f = "calculate_screen_failure_rate"

\* The sum of column c over the rows of df whose Subject Status is status
StatusTotal(df, status, c) ==
    SumSeq([i \in DOMAIN df.rows |->
               IF df.rows[i]["Subject Status"] = status THEN df.rows[i][c] ELSE NaN])

EnrollmentUsable(e) ==
    HasCol(e, "Screened") /\ HasCol(e, "Screen Failed") /\ Sum(e, "Screened") > 0

MonthlyUsable(m) ==
    /\ HasCol(m, "Subject Status") /\ HasCol(m, "Total")
    /\ \E i \in DOMAIN m.rows : m.rows[i]["Subject Status"] = Screened
    /\ \E i \in DOMAIN m.rows : m.rows[i]["Subject Status"] = ScreenFailed
    /\ StatusTotal(m, Screened, "Total") > 0

\* C3: the rate is resolved in a fixed order: an override > 0 unchanged; else
\* 100 * sum(Screen Failed) / sum(Screened) of the enrollment table when it
\* has both columns and sum(Screened) > 0; else the same ratio over Total of
\* the monthly table when it has both statuses, Total and a Screened total
\* > 0; else exactly 50; the two ratios are never combined
C3_ResolutionOrder ==
    RateReturned =>
        LET e == args.enrollment_data
            m == args.monthly_data
            o == args.sf_rate_override
            out == result.out
        IN  /\ out.ok
            /\ IF o.n > 0 THEN out.val = o
               ELSE IF EnrollmentUsable(e)
               THEN /\ out.val.n * Sum(e, "Screened")
                          = 100 * Sum(e, "Screen Failed") * out.val.d
                    /\ out.val.d > 0
               ELSE IF MonthlyUsable(m)
               THEN /\ out.val.n * StatusTotal(m, Screened, "Total")
                          = 100 * StatusTotal(m, ScreenFailed, "Total") * out.val.d
                    /\ out.val.d > 0
               ELSE out.val = Rat(50, 1)

\* the monthly ratio is what was returned: the enrollment path gave nothing
C3_Witness ==
    /\ RateReturned
    /\ args.sf_rate_override.n = 0
    /\ HasCol(args.enrollment_data, "Screen Failed")
    /\ Sum(args.enrollment_data, "Screened") = 0
    /\ Sum(args.enrollment_data, "Screen Failed") > 0
    /\ MonthlyUsable(args.monthly_data)
    /\ result.out = Ok(Rat(100, 2))

\* C4: for an enrollment table whose summed Screened is 0 the rate computed
\* from it is 0, whatever its Screen Failed values, and nothing is raised
C4_ZeroRateWhenNothingScreened ==
    (/\ RateReturned
     /\ args.sf_rate_override.n = 0
     /\ HasCol(args.enrollment_data, "Screened")
     /\ HasCol(args.enrollment_data, "Screen Failed")
     /\ Sum(args.enrollment_data, "Screened") = 0)
        => result.out.ok /\ result.out.val.n = 0

\* What the function does return for such a table: nothing is raised and
\* nothing is divided by the zero sum; the value is the monthly table's Total
\* ratio when that is usable (which is 0 only when the monthly Screen Failed
\* total is 0) and the fallback 50 otherwise
C4_FallbackWhenNothingScreened ==
    (/\ RateReturned
     /\ args.sf_rate_override.n = 0
     /\ HasCol(args.enrollment_data, "Screened")
     /\ HasCol(args.enrollment_data, "Screen Failed")
     /\ Sum(args.enrollment_data, "Screened") = 0)
        => LET m == args.monthly_data
               out == result.out
           IN  /\ out.ok
               /\ out.val.d > 0
               /\ MonthlyUsable(m) =>
                      out.val.n * StatusTotal(m, Screened, "Total")
                          = 100 * StatusTotal(m, ScreenFailed, "Total") * out.val.d
               /\ ~MonthlyUsable(m) => out.val = Rat(50, 1)

\* nothing screened, failures recorded, no usable monthly ratio: 50 is returned
\* where C4 expects 0
C4_Witness ==
    /\ RateReturned
    /\ args.sf_rate_override.n = 0
    /\ HasCol(args.enrollment_data, "Screen Failed")
    /\ Sum(args.enrollment_data, "Screened") = 0
    /\ Sum(args.enrollment_data, "Screen Failed") > 0
    /\ ~MonthlyUsable(args.monthly_data)
    /\ result.out = Ok(Rat(50, 1))

----------------------------------------------------------------------------
(* Screenings needed, in its three places *)

MaxNeededTarget == 10
MaxFailed == 6
MaxScreened == 5
MAX_OVERRIDE == 100

\* The rates the three places can be given: a ratio of two sums, as a
\* percentage (above 100 when more failed than were screened), the fallback,
\* or an override of 0..100 percent
NeededRates ==
    {Percentage(f, n) : f \in 0..MaxFailed, n \in 1..MaxScreened}
        \cup {Rat(k, 1) : k \in 0..MAX_OVERRIDE}

InitNeeded ==
    /\ today = 1
    /\ session_state = init_session_state(Now)
    /\ last_run = NoRun
    /\ args \in [f : {"screenings_needed"},
                 target_enrollment : 1..MaxNeededTarget,
                 screen_failure_rate : NeededRates]
    /\ result = NoCall

\* generate_enrollment_projections computes screenings_needed
CallProjectionNeeded ==
    /\ args.f = "screenings_needed"
    /\ result = NoCall
    /\ \E v \in screenings_needed(args.target_enrollment, args.screen_failure_rate) :
           result' = [f |-> "projection", value |-> v]
    /\ UNCHANGED <<session_state, last_run, today, args>>

\* render_overview_metrics computes screenings_needed
CallOverviewNeeded ==
    /\ args.f = "screenings_needed"
    /\ result = NoCall
    /\ \E v \in overview_screenings_needed(args.target_enrollment,
                                           args.screen_failure_rate) :
           result' = [f |-> "overview", value |-> v]
    /\ UNCHANGED <<session_state, last_run, today, args>>

\* render_enrollment_tab computes screenings_needed
CallTabNeeded ==
    /\ args.f = "screenings_needed"
    /\ result = NoCall
    /\ \E v \in tab_screenings_needed(args.target_enrollment,
                                      args.screen_failure_rate) :
           result' = [f |-> "tab", value |-> v]
    /\ UNCHANGED <<session_state, last_run, today, args>>

NextNeeded == CallProjectionNeeded \/ CallOverviewNeeded \/ CallTabNeeded

SpecNeeded == InitNeeded /\ [][NextNeeded]_vars

NeededReturned == result # NoCall /\ result.f \in {"projection", "overview", "tab"}

\* C5: for a target >= 1 and a rate >= 100 the value is exactly target * 5, in
\* the projection generator, the overview card and the enrollment tab alike
C5_SaturationAtOrAbove100 ==
    (NeededReturned /\ args.screen_failure_rate.n >= 100 * args.screen_failure_rate.d)
        => result.value = args.target_enrollment * 5

\* the overview card saturates at a rate above 100
C5_Witness ==
    /\ NeededReturned
    /\ result.f = "overview"
    /\ args.screen_failure_rate = Percentage(3, 2)
    /\ args.target_enrollment = 10
    /\ result.value = 50

\* C6: for a target >= 1 and a rate r with 0 <= r < 100 the value is
\* target / (1 - r/100) rounded to the nearest integer: it differs from the
\* exact quotient by at most one half, also when the quotient is halfway
\* between two integers
C6_NearestInteger ==
    (/\ NeededReturned
     /\ result.f = "projection"
     /\ args.screen_failure_rate.n >= 0
     /\ args.screen_failure_rate.n < 100 * args.screen_failure_rate.d)
        => LET num == 100 * args.screen_failure_rate.d * args.target_enrollment
               den == 100 * args.screen_failure_rate.d - args.screen_failure_rate.n
               diff == result.value * den - num
           IN  2 * (IF diff < 0 THEN -diff ELSE diff) <= den

\* target 10 at rate 50 gives 20
C6_Witness ==
    /\ NeededReturned
    /\ result.f = "projection"
    /\ args.target_enrollment = 10
    /\ args.screen_failure_rate = Rat(50, 1)
    /\ result.value = 20

----------------------------------------------------------------------------
(* generate_enrollment_projections *)

\* Reconciled enrollment tables of 1..MaxRows sites with 0..MaxCount
\* randomized each, with and without the Randomized column
ProjectionEnrollmentTables ==
    LET Table(rs) ==
            DataFrame(EnrollmentCols,
                      [i \in DOMAIN rs |->
                          EnrollmentRow(Num(i), US, Num(4), Num(1), Num(rs[i]))])
        Full == UNION {{Table(rs) : rs \in [1..n -> 0..MaxCount]} : n \in 1..MaxRows}
    IN  {process_enrollment_data(t).val : t \in Full}
        \cup {process_enrollment_data(DropCol(t, "Randomized")).val : t \in Full}

\* datetime.now() and the projection end date of the calls
ProjectionNows == {Day(2025, 8, 31), Day(2025, 12, 1), Day(2024, 2, 29)}

ProjectionEndDates ==
    {Day(2025, 9, 30), Day(2025, 8, 1), Day(2025, 7, 31), Day(2026, 2, 1),
     Day(2024, 12, 31), Day(2027, 1, 15)}

ProjectionRates == {Rat(0, 1), Rat(20, 1), Rat(50, 1), Rat(100, 1), Percentage(3, 2)}

InitProjections ==
    /\ today = 1
    /\ session_state = init_session_state(Now)
    /\ last_run = NoRun
    /\ args \in [f : {"generate_enrollment_projections"},
                 enrollment_data : ProjectionEnrollmentTables,
                 target_enrollment : 1..MaxTarget,
                 projection_end : ProjectionEndDates,
                 screen_failure_rate : ProjectionRates,
                 now : ProjectionNows]
    /\ result = NoCall

CallProjections ==
    /\ args.f = "generate_enrollment_projections"
    /\ result = NoCall
    /\ \E needed \in screenings_needed(args.target_enrollment,
                                       args.screen_failure_rate) :
           result' = [f |-> args.f,
                      out |-> generate_enrollment_projections(
                                  args.enrollment_data, args.target_enrollment,
                                  args.projection_end, needed, args.now)]
    /\ UNCHANGED <<session_state, last_run, today, args>>

NextProjections == CallProjections

SpecProjections == InitProjections /\ [][NextProjections]_vars

ProjectionsReturned ==
    result # NoCall /\ result.f = "generate_enrollment_projections"

\* C7: row i (from 0) has Cumulative Target = sum of Randomized (0 without
\* the column) + (i+1) * target, Target Randomizations = target, and the
\* Screenings Needed of every other row
C7_ProjectionRows ==
    ProjectionsReturned =>
        LET rows == result.out.rows
            e == args.enrollment_data
            randomized == IF "Randomized" \in Range(e.cols)
                          THEN SumSeq([j \in DOMAIN e.rows |-> e.rows[j]["Randomized"]])
                          ELSE 0
        IN  \A i \in DOMAIN rows :
                /\ rows[i]["Cumulative Target"]
                       = Num(randomized + i * args.target_enrollment)
                /\ rows[i]["Target Randomizations"] = Num(args.target_enrollment)
                /\ \A j \in DOMAIN rows :
                       rows[j]["Screenings Needed"] = rows[i]["Screenings Needed"]

\* three rows or more on top of 4 randomized subjects, target 2
C7_Witness ==
    /\ ProjectionsReturned
    /\ Len(result.out.rows) >= 3
    /\ args.target_enrollment = 2
    /\ HasCol(args.enrollment_data, "Randomized")
    /\ Sum(args.enrollment_data, "Randomized") = 4
    /\ result.out.rows[3]["Cumulative Target"] = Num(10)

\* The number of months from the current month through the end date's month
MonthsThrough(now, end) == 12 * (end.y - now.y) + (end.m - now.m) + 1

\* The k-th calendar month from the month of now (k from 1)
KthMonth(now, k) ==
    LET t == 12 * now.y + (now.m - 1) + (k - 1)
    IN  Day(t \div 12, (t % 12) + 1, 1)

\* C8: one row per calendar month from the current month through the month
\* of the projection end date, both included, in order, none skipped or
\* repeated: 12*(endYear - curYear) + (endMonth - curMonth) + 1 rows when that
\* is positive, no row otherwise
C8_OneRowPerMonth ==
    ProjectionsReturned =>
        LET rows == result.out.rows
            n == MonthsThrough(args.now, args.projection_end)
        IN  /\ n > 0 => Len(rows) = n
            /\ n <= 0 => rows = <<>>
            /\ \A k \in DOMAIN rows :
                   rows[k]["Month"] = Txt(strftime_bY(KthMonth(args.now, k)))

\* December 2025 through February 2026: three rows across the year's end
C8_Witness ==
    /\ ProjectionsReturned
    /\ args.now = Day(2025, 12, 1)
    /\ args.projection_end = Day(2026, 2, 1)
    /\ Len(result.out.rows) = 3
    /\ result.out.rows[2]["Month"] = Txt(<<"Jan", "-", "2", "0", "2", "6">>)

----------------------------------------------------------------------------
(* Wide-month extractor: extract_monthly_enrollment (data_processing.py)    *)
(* and extract_monthly_screening_data (screening_tab.py)                    *)

\* The characters of the headers the model's monthly files use. A month
\* name's first three letters are one character of the model, so that
\* "January" starts with "Jan" as the text does.
chars ==
    ("Jan-2025" :> <<"Jan", "-", "2", "0", "2", "5">>) @@
    ("January-2025" :> <<"Jan", "uary", "-", "2", "0", "2", "5">>) @@
    ("01-2025" :> <<"0", "1", "-", "2", "0", "2", "5">>) @@
    ("Feb-2025" :> <<"Feb", "-", "2", "0", "2", "5">>) @@
    ("February-2025" :> <<"Feb", "ruary", "-", "2", "0", "2", "5">>) @@
    ("02-2025" :> <<"0", "2", "-", "2", "0", "2", "5">>) @@
    ("Dec-2024" :> <<"Dec", "-", "2", "0", "2", "4">>) @@
    ("12-2024" :> <<"1", "2", "-", "2", "0", "2", "4">>) @@
    ("may-2026" :> <<"may", "-", "2", "0", "2", "6">>) @@
    ("13-2025" :> <<"1", "3", "-", "2", "0", "2", "5">>) @@
    ("Jan-25" :> <<"Jan", "-", "2", "5">>) @@
    ("Visits" :> <<"V", "i", "s", "i", "t", "s">>) @@
    ("V01" :> <<"V", "0", "1">>) @@ ("V02" :> <<"V", "0", "2">>) @@
    ("V03" :> <<"V", "0", "3">>) @@ ("V04" :> <<"V", "0", "4">>) @@
    ("V05" :> <<"V", "0", "5">>) @@ ("V06" :> <<"V", "0", "6">>) @@
    ("V07" :> <<"V", "0", "7">>) @@ ("V08" :> <<"V", "0", "8">>) @@
    ("V09" :> <<"V", "0", "9">>) @@ ("V10" :> <<"V", "1", "0">>) @@
    ("V11" :> <<"V", "1", "1">>) @@ ("V12" :> <<"V", "1", "2">>) @@
    ("V13" :> <<"V", "1", "3">>) @@ ("V14" :> <<"V", "1", "4">>) @@
    ("V15" :> <<"V", "1", "5">>) @@ ("V16" :> <<"V", "1", "6">>)

\* The rest of each full month name after its first three letters
MonthRest ==
    <<"uary", "ruary", "ch", "il", "", "e", "y", "ust", "tember", "ober", "ember",
      "ember">>

MonthAbbrLower ==
    <<"jan", "feb", "mar", "apr", "may", "jun", "jul", "aug", "sep", "oct", "nov", "dec">>

\* The month whose abbreviated name is ch, in any letter case the model uses
\* (strptime matches names ignoring case); 0 when there is none
MonthOfAbbr(ch) ==
    IF \E m \in 1..12 : ch \in {MonthAbbr[m], MonthAbbrLower[m]}
    THEN CHOOSE m \in 1..12 : ch \in {MonthAbbr[m], MonthAbbrLower[m]}
    ELSE 0

\* The index of the first "-" of text, 0 when there is none
FirstDash(text) ==
    IF \E i \in DOMAIN text : text[i] = "-"
    THEN CHOOSE i \in DOMAIN text :
             text[i] = "-" /\ \A j \in 1..(i - 1) : text[j] # "-"
    ELSE 0

\* %b, %B and %m on the text before the "-": the month, 0 when the directive
\* does not match all of it
match_b(part) == IF Len(part) = 1 THEN MonthOfAbbr(part[1]) ELSE 0

match_B(part) ==
    IF part = <<>> \/ MonthOfAbbr(part[1]) = 0 THEN 0
    ELSE LET m == MonthOfAbbr(part[1])
         IN  IF (MonthRest[m] = "" /\ Len(part) = 1)
                \/ (MonthRest[m] # "" /\ part = <<part[1], MonthRest[m]>>)
             THEN m ELSE 0

match_m(part) ==
    IF ~IsDigits(part) \/ Len(part) > 2 THEN 0
    ELSE IF IntOfDigits(part) \in 1..12 THEN IntOfDigits(part) ELSE 0

\* %Y on the text after the "-": four digits, a year from 1; 0 otherwise
match_Y(part) == IF IsDigits(part) /\ Len(part) = 4 THEN IntOfDigits(part) ELSE 0

MONTH_FORMATS == <<"%b-%Y", "%B-%Y", "%m-%Y">>

\* datetime.strptime(col, fmt): the first day of the month, or None for a
\* ValueError
strptime(col, fmt) ==
    LET text == chars[col]
        dash == FirstDash(text)
        month_part == SubSeq(text, 1, dash - 1)
        year_part == SubSeq(text, dash + 1, Len(text))
        m == CASE fmt = "%b-%Y" -> match_b(month_part)
               [] fmt = "%B-%Y" -> match_B(month_part)
               [] OTHER -> match_m(month_part)
        y == match_Y(year_part)
    IN  IF dash = 0 \/ m = 0 \/ y = 0 THEN None ELSE Day(y, m, 1)

RECURSIVE parse_month(_, _)
\* for fmt in formats: try: return strptime(col, fmt) except: continue
parse_month(col, formats) ==
    IF formats = <<>> THEN None
    ELSE IF strptime(col, Head(formats)) # None THEN strptime(col, Head(formats))
    ELSE parse_month(col, Tail(formats))

NON_MONTH_COLS ==
    {"Site ID", "Site Name", "PI First Name", "PI Last Name", "Status", "Country",
     "1st Screening", "1st Enrollment", "Subject Status", "Total"}

\* date_cols: the candidate columns whose header parses, in column order
date_cols(df) ==
    SelectSeq(df.cols,
              LAMBDA col : col \notin NON_MONTH_COLS /\ parse_month(col, MONTH_FORMATS) # None)

\* date_mapping of the parsed columns
date_mapping(df) ==
    [col \in Range(date_cols(df)) |-> parse_month(col, MONTH_FORMATS)]

DateLT(a, b) == DateLE(a, b) /\ a # b

\* sorted() leaving the columns in file order
sorted_by_file_order(cols, mapping) == cols

RECURSIVE sorted_by(_, _)
\* sorted(cols, key=lambda x: mapping[x]): a stable sort
sorted_by(cols, mapping) ==
    IF cols = <<>> THEN <<>>
    ELSE LET front == sorted_by(SubSeq(cols, 1, Len(cols) - 1), mapping)
             last == cols[Len(cols)]
             before == SelectSeq(front, LAMBDA c : DateLE(mapping[c], mapping[last]))
             after == SelectSeq(front, LAMBDA c : DateLT(mapping[last], mapping[c]))
         IN  before \o <<last>> \o after

RECURSIVE CumulativeRows(_, _, _)
\* the loop of extract_monthly_enrollment over the sorted columns
CumulativeRows(df, cols, cumulative_total) ==
    IF cols = <<>> THEN <<>>
    ELSE LET col == Head(cols)
             month_total == Sum(df, col)
         IN  <<("Month" :> Txt(chars[col])) @@
               ("Monthly Randomized" :> Num(month_total)) @@
               ("Cumulative Randomized" :> Num(cumulative_total + month_total)) @@
               ("Month_dt" :> date_mapping(df)[col])>>
             \o CumulativeRows(df, Tail(cols), cumulative_total + month_total)

\* A cell a column sum can add up
is_number(c) == c.k \in {"num", "nan"}

\* The DataFrame returned, None, or the exception raised: the sum of a column
\* of texts or dates cannot be added to the running total
extract_monthly_enrollment(monthly_data) ==
    IF date_cols(monthly_data) = <<>> THEN Ok(None)
    ELSE IF ~HasCol(monthly_data, "Subject Status") THEN Raise("KeyError")
    ELSE LET sorted_date_cols == sorted_by(date_cols(monthly_data),
                                           date_mapping(monthly_data))
             randomized_data == Where(monthly_data, "Subject Status", Randomized)
         IN  IF \E i \in DOMAIN sorted_date_cols : \E j \in DOMAIN randomized_data.rows :
                    ~is_number(randomized_data.rows[j][sorted_date_cols[i]])
             THEN Raise("TypeError")
             ELSE Ok(DataFrame(<<"Month", "Monthly Randomized", "Cumulative Randomized",
                                 "Month_dt">>,
                               CumulativeRows(randomized_data, sorted_date_cols, 0)))

\* pd.api.types.is_numeric_dtype(df[col].dtype): a column read with no cells,
\* or with a text or a date among them, is not numeric
is_numeric_dtype(df, col) ==
    df.rows # <<>> /\ \A i \in DOMAIN df.rows : is_number(df.rows[i][col])

\* potential_month_cols of the fallback, in column order
potential_month_cols(df) ==
    SelectSeq(df.cols, LAMBDA col : col \notin NON_MONTH_COLS /\ is_numeric_dtype(df, col))

\* pd.Timestamp(year=2020, month=(i % 12) + 1, day=1) for the i-th column,
\* counted from 0
synthetic_mapping(cols) ==
    [col \in Range(cols) |->
        LET i == (CHOOSE k \in DOMAIN cols : cols[k] = col) - 1
        IN  Day(2020, (i % 12) + 1, 1)]

\* str(status).lower() of the subject-status labels of the model's files
status_lower ==
    (<<"Screened">> :> <<"s","c","r","e","e","n","e","d">>) @@
    (<<"Screen Failed">> :> <<"s","c","r","e","e","n"," ","f","a","i","l","e","d">>) @@
    (<<"Randomized">> :> <<"r","a","n","d","o","m","i","z","e","d">>) @@
    (<<"In Screening">> :> <<"i","n"," ","s","c","r","e","e","n","i","n","g">>) @@
    (<<"Screen Failure">> :>
        <<"s","c","r","e","e","n"," ","f","a","i","l","u","r","e">>) @@
    (<<"Enrolled">> :> <<"e","n","r","o","l","l","e","d">>) @@
    (<<"Screened - Failed">> :>
        <<"s","c","r","e","e","n","e","d"," ","-"," ","f","a","i","l","e","d">>) @@
    (<<"SCREEN FAIL">> :> <<"s","c","r","e","e","n"," ","f","a","i","l">>)

\* A date prints as digits and punctuation: none of the letters looked for
str_lower(c) ==
    CASE c.k = "str" -> status_lower[c.s]
      [] c.k = "date" -> <<>>
      [] OTHER -> str(c)

EXPECTED_STATUSES == <<"Screened", "Screen Failed", "Randomized">>

expected_lower ==
    ("Screened" :> status_lower[<<"Screened">>]) @@
    ("Screen Failed" :> status_lower[<<"Screen Failed">>]) @@
    ("Randomized" :> status_lower[<<"Randomized">>])

\* The first loop: each expected status takes the first actual status whose
\* lowered text contains it
status_mapping_exact(actual_statuses) ==
    LET found(e) == {i \in DOMAIN actual_statuses :
                        contains(str_lower(actual_statuses[i]), expected_lower[e])}
        mapped == {e \in Range(EXPECTED_STATUSES) : found(e) # {}}
    IN  [e \in mapped |->
            actual_statuses[CHOOSE i \in found(e) : \A j \in found(e) : i <= j]]

\* The branch one actual status takes in the second loop, "" for none
heuristic_key(status) ==
    LET status_str == str_lower(status)
        has(sub) == contains(status_str, sub)
    IN  IF has(<<"s","c","r","e","e","n">>) /\ ~has(<<"f","a","i","l">>) THEN "Screened"
        ELSE IF has(<<"f","a","i","l">>) THEN "Screen Failed"
        ELSE IF has(<<"r","a","n","d","o","m">>) \/ has(<<"e","n","r","o","l","l">>)
             THEN "Randomized"
        ELSE ""

RECURSIVE status_mapping_heuristic(_, _)
\* The second loop: a later status overwrites an earlier one
status_mapping_heuristic(mapping, actual_statuses) ==
    IF actual_statuses = <<>> THEN mapping
    ELSE LET key == heuristic_key(Head(actual_statuses))
             next == IF key = "" THEN mapping
                     ELSE [e \in DOMAIN mapping \cup {key} |->
                              IF e = key THEN Head(actual_statuses) ELSE mapping[e]]
         IN  status_mapping_heuristic(next, Tail(actual_statuses))

status_mapping(actual_statuses) ==
    LET exact == status_mapping_exact(actual_statuses)
    IN  IF Cardinality(DOMAIN exact) < 2
        THEN status_mapping_heuristic(exact, actual_statuses)
        ELSE exact

\* round(sf_rate, 1), in tenths of a percent: the possible results
round_tenths(failed, screened) ==
    IF screened > 0 THEN round(1000 * failed, screened) ELSE {0}

Tenths(t) == [k |-> "tenths", n |-> t, s |-> <<>>]

RECURSIVE ScreeningRows(_, _, _, _)
\* The loop over the sorted columns: the possible lists of rows
ScreeningRows(df, cols, mapping, statuses) ==
    IF cols = <<>> THEN {<<>>}
    ELSE LET col == Head(cols)
             screened == Sum(Where(df, "Subject Status", statuses["Screened"]), col)
             failed == Sum(Where(df, "Subject Status", statuses["Screen Failed"]), col)
             randomized ==
                 IF "Randomized" \in DOMAIN statuses
                 THEN Sum(Where(df, "Subject Status", statuses["Randomized"]), col)
                 ELSE 0
             row(t) == ("Month" :> Txt(chars[col])) @@ ("Screened" :> Num(screened)) @@
                       ("Screen Failed" :> Num(failed)) @@
                       ("Randomized" :> Num(randomized)) @@
                       ("Screen Failure Rate" :> Tenths(t)) @@
                       ("Month_dt" :> mapping[col])
             heads == IF is_numeric_dtype(df, col) /\ (screened > 0 \/ failed > 0)
                      THEN {<<row(t)>> : t \in round_tenths(failed, screened)}
                      ELSE {<<>>}
         IN  {h \o rest : h \in heads,
                          rest \in ScreeningRows(df, Tail(cols), mapping, statuses)}

\* The orders df.sort_values('Month_dt') can give: ascending, rows of the
\* same month in any order (the default sort is not stable)
RECURSIVE sort_values_Month_dt(_)
sort_values_Month_dt(rows) ==
    IF rows = <<>> THEN {<<>>}
    ELSE LET least == {i \in DOMAIN rows :
                          \A j \in DOMAIN rows :
                              DateLE(rows[i]["Month_dt"], rows[j]["Month_dt"])}
         IN  UNION {{<<rows[i]>> \o rest :
                        rest \in sort_values_Month_dt(SubSeq(rows, 1, i - 1)
                                                      \o SubSeq(rows, i + 1, Len(rows)))} :
                    i \in least}

ScreeningCols ==
    <<"Month", "Screened", "Screen Failed", "Randomized", "Screen Failure Rate",
      "Month_dt">>

\* The values extract_monthly_screening_data can return: a DataFrame or None
extract_monthly_screening_data(monthly_data) ==
    IF ~HasCol(monthly_data, "Subject Status") THEN {None}
    ELSE LET parsed == date_cols(monthly_data)
             potential == potential_month_cols(monthly_data)
             cols == IF parsed # <<>> THEN parsed ELSE potential
             mapping == IF parsed # <<>> THEN date_mapping(monthly_data)
                        ELSE synthetic_mapping(potential)
             sorted_date_cols == sorted_by(cols, mapping)
             statuses == status_mapping(unique(Column(monthly_data, "Subject Status")))
         IN  IF cols = <<>> THEN {None}
             ELSE IF ~({"Screened", "Screen Failed"} \subseteq DOMAIN statuses)
             THEN {None}
             ELSE UNION {IF monthly_totals = <<>> THEN {None}
                         ELSE {DataFrame(ScreeningCols, sorted) :
                                  sorted \in sort_values_Month_dt(monthly_totals)} :
                         monthly_totals \in
                             ScreeningRows(monthly_data, sorted_date_cols, mapping, statuses)}

----------------------------------------------------------------------------
(* The month extractors on reconciled monthly tables *)

MaxMonthCols == 3

MonthHeaders ==
    {"Jan-2025", "January-2025", "01-2025", "Feb-2025", "February-2025", "02-2025",
     "Dec-2024", "12-2024", "may-2026", "13-2025", "Jan-25", "Visits"}

\* The month columns of a file, in file order: no header twice
MonthHeaderLists ==
    UNION {{h \in [1..n -> MonthHeaders] : \A i, j \in 1..n : i # j => h[i] # h[j]} :
           n \in 1..MaxMonthCols}

MonthTableKinds == {"counts", "text cell", "loose labels"}

\* The subject-status labels of the three rows of a file
MonthTableLabels(kind) ==
    IF kind = "loose labels"
    THEN <<Txt(<<"In Screening">>), Txt(<<"Screen Failure">>), Txt(<<"Enrolled">>)>>
    ELSE <<Screened, ScreenFailed, Randomized>>

\* The cell of row r (screened, failed, randomized) under the c-th month
\* column
MonthCell(kind, r, c) ==
    IF kind = "text cell" /\ r = 3 /\ c = 1 THEN Txt(<<"n", "/", "a">>)
    ELSE IF kind = "loose labels" /\ r = 2 /\ c = 2 THEN NaN
    ELSE IF r = 1 THEN Num(c + 1)
    ELSE IF r = 2 THEN Num(1)
    ELSE Num(c)

RECURSIVE WithMonthCols(_, _, _, _)
WithMonthCols(df, headers, kind, c) ==
    IF headers = <<>> THEN df
    ELSE WithMonthCols(SetCol(df, Head(headers),
                              [r \in DOMAIN df.rows |-> MonthCell(kind, r, c)]),
                       Tail(headers), kind, c + 1)

\* The monthly file with the given month columns, as read
MonthFile(headers, kind) ==
    WithMonthCols(DataFrame(MonthlyCols,
                            [r \in 1..3 |->
                                MonthlyRow(Site007, Active, Date(20099), NaN,
                                           MonthTableLabels(kind)[r], Num(r))]),
                  headers, kind, 1)

InitMonths ==
    /\ today = 1
    /\ session_state = init_session_state(Now)
    /\ last_run = NoRun
    /\ \E headers \in MonthHeaderLists, kind \in MonthTableKinds :
           args = [f |-> "extract_monthly",
                   headers |-> headers,
                   monthly_data |-> process_monthly_data(MonthFile(headers, kind)).val]
    /\ result = NoCall

CallExtractEnrollment ==
    /\ args.f = "extract_monthly"
    /\ result = NoCall
    /\ result' = [f |-> "extract_monthly_enrollment",
                  out |-> extract_monthly_enrollment(args.monthly_data)]
    /\ UNCHANGED <<session_state, last_run, today, args>>

CallExtractScreening ==
    /\ args.f = "extract_monthly"
    /\ result = NoCall
    /\ \E value \in extract_monthly_screening_data(args.monthly_data) :
           result' = [f |-> "extract_monthly_screening_data", out |-> Ok(value)]
    /\ UNCHANGED <<session_state, last_run, today, args>>

NextMonths == CallExtractEnrollment \/ CallExtractScreening

SpecMonths == InitMonths /\ [][NextMonths]_vars

\* The calendar month each header of the model's files names, None for a
\* header that names none
ExpectedMonth ==
    ("Jan-2025" :> Day(2025, 1, 1)) @@ ("January-2025" :> Day(2025, 1, 1)) @@
    ("01-2025" :> Day(2025, 1, 1)) @@ ("Feb-2025" :> Day(2025, 2, 1)) @@
    ("February-2025" :> Day(2025, 2, 1)) @@ ("02-2025" :> Day(2025, 2, 1)) @@
    ("Dec-2024" :> Day(2024, 12, 1)) @@ ("12-2024" :> Day(2024, 12, 1)) @@
    ("may-2026" :> Day(2026, 5, 1)) @@ ("13-2025" :> None) @@
    ("Jan-25" :> None) @@ ("Visits" :> None)

\* The header a Month cell shows
HeaderOf(cell) == CHOOSE h \in MonthHeaders : Txt(chars[h]) = cell

MonthsReturned ==
    /\ result # NoCall
    /\ result.f \in {"extract_monthly_enrollment", "extract_monthly_screening_data"}
    /\ result.out.ok
    /\ result.out.val # None

SomeHeaderParses == \E i \in DOMAIN args.headers : ExpectedMonth[args.headers[i]] # None

\* C9: from either extractor, on a file with a month header in one of the
\* three formats, every row is of a header that names a month and carries
\* that month (Jan-2025, January-2025 and 01-2025 the same one), no header
\* gives two rows, the rows are in the order of their months whatever the
\* order and spelling of the headers, and the enrollment extractor returns a
\* row for every such header
C9_MonthHeaders ==
    (MonthsReturned /\ SomeHeaderParses) =>
        LET rows == result.out.val.rows
            named == {h \in Range(args.headers) : ExpectedMonth[h] # None}
        IN  /\ \A i \in DOMAIN rows :
                   /\ HeaderOf(rows[i]["Month"]) \in named
                   /\ rows[i]["Month_dt"] = ExpectedMonth[HeaderOf(rows[i]["Month"])]
            /\ \A i, j \in DOMAIN rows :
                   i < j =>
                       /\ rows[i]["Month"] # rows[j]["Month"]
                       /\ DateLE(ExpectedMonth[HeaderOf(rows[i]["Month"])],
                                 ExpectedMonth[HeaderOf(rows[j]["Month"])])
            /\ result.f = "extract_monthly_enrollment" =>
                   {HeaderOf(rows[i]["Month"]) : i \in DOMAIN rows} = named

\* Feb-2025, 01-2025, Dec-2024 in file order come out as Dec-2024, 01-2025,
\* Feb-2025
C9_Witness ==
    /\ MonthsReturned
    /\ result.f = "extract_monthly_enrollment"
    /\ args.headers = <<"Feb-2025", "01-2025", "Dec-2024">>
    /\ [i \in 1..3 |-> HeaderOf(result.out.val.rows[i]["Month"])]
           = <<"Dec-2024", "01-2025", "Feb-2025">>
    /\ result.out.val.rows[2]["Month_dt"] = Day(2025, 1, 1)

----------------------------------------------------------------------------
(* The activation-date backfill on a reconciled monthly and site table *)

MaxSites == 2

\* Site numbers as the files hold them: text with and without leading
\* zeros, and numbers (a numeric 007 is the number 7)
SiteNumberCells == {Site007, Num(7), Txt(<<"7">>), Num(12)}

ActivatedCells == {Date(20089), NaN}

\* Monthly files of 1..MaxSites rows, one per site number cell
BackfillMonthlyFiles ==
    UNION {{DataFrame(MonthlyCols,
                      [i \in 1..n |->
                          MonthlyRow(ids[i], Active, Date(20099), NaN, Screened, Num(1))]) :
            ids \in {f \in [1..n -> SiteNumberCells] :
                        \A i, j \in 1..n : i # j => f[i] # f[j]}} :
           n \in 1..MaxSites}

\* Site-master files of 1..MaxSites rows
BackfillSiteFiles ==
    UNION {{DataFrame(SiteCols, [i \in 1..n |-> SiteRow(ids[i], dates[i])]) :
            ids \in [1..n -> SiteNumberCells], dates \in [1..n -> ActivatedCells]} :
           n \in 1..MaxSites}

InitBackfill ==
    /\ today = 1
    /\ session_state = init_session_state(Now)
    /\ last_run = NoRun
    /\ \E monthly \in BackfillMonthlyFiles, site \in BackfillSiteFiles :
           args = [f |-> "update_activation_dates",
                   monthly_file |-> monthly,
                   activation_data |->
                       extract_activation_data(process_monthly_data(monthly).val).val,
                   site_data |-> process_site_data(site).val]
    /\ result = NoCall

CallUpdate ==
    /\ args.f = "update_activation_dates"
    /\ result = NoCall
    /\ result' = [f |-> args.f,
                  out |-> update_activation_dates(args.activation_data, args.site_data)]
    /\ UNCHANGED <<session_state, last_run, today, args>>

NextBackfill == CallUpdate

SpecBackfill == InitBackfill /\ [][NextBackfill]_vars

BackfillReturned == result # NoCall /\ result.f = "update_activation_dates"

\* Two site-number cells that denote the same site: the same text, the same
\* number, or a text of digits and the number it writes ("007" and 7)
SameSite(a, b) ==
    \/ a = b
    \/ a.k = "str" /\ b.k = "num" /\ IsDigits(a.s) /\ IntOfDigits(a.s) = b.n
    \/ a.k = "num" /\ b.k = "str" /\ IsDigits(b.s) /\ IntOfDigits(b.s) = a.n

\* C10: after the backfill, the timeline row of every monthly site that a
\* site-master row with an activation date denotes (the text "007" against
\* the number 007 included) has the activation date of such a row
C10_BackfillMatchesSameSite ==
    BackfillReturned =>
        /\ result.out.ok
        /\ \A i \in DOMAIN args.monthly_file.rows :
               LET site_id == args.monthly_file.rows[i]["Site ID"]
                   dates == {args.site_data.rows[j]["Site Activated Date"] :
                                j \in {k \in DOMAIN args.site_data.rows :
                                          /\ SameSite(site_id,
                                                 args.site_data.rows[k]["Site Number"])
                                          /\ notnull(args.site_data.rows[k]
                                                         ["Site Activated Date"])}}
               IN  dates # {} =>
                       get(result.out.val.rows[i], "Date of Activation", NaN) \in dates

\* What the code does match: cells whose str() is the same text
C10_BackfillMatchesEqualText ==
    BackfillReturned =>
        /\ result.out.ok
        /\ \A i \in DOMAIN args.monthly_file.rows :
               LET site_id == args.monthly_file.rows[i]["Site ID"]
                   dates == {args.site_data.rows[j]["Site Activated Date"] :
                                j \in {k \in DOMAIN args.site_data.rows :
                                          /\ str(site_id)
                                                 = str(args.site_data.rows[k]["Site Number"])
                                          /\ notnull(args.site_data.rows[k]
                                                         ["Site Activated Date"])}}
               IN  get(result.out.val.rows[i], "Date of Activation", NaN)
                       \in (IF dates = {} THEN {NaN} ELSE dates)

\* The monthly file has the text "007", the site master the number 7 with an
\* activation date, and the timeline row is left without one
C10_Witness ==
    /\ BackfillReturned
    /\ Len(args.monthly_file.rows) = 1
    /\ args.monthly_file.rows[1]["Site ID"] = Site007
    /\ Len(args.site_data.rows) = 1
    /\ args.site_data.rows[1]["Site Number"] = Num(7)
    /\ args.site_data.rows[1]["Site Activated Date"] = Date(20089)
    /\ get(result.out.val.rows[1], "Date of Activation", NaN) = NaN

----------------------------------------------------------------------------
(* The timeline builder on reconciled monthly tables *)

MaxTimelineRows == 2

Inactive == Txt(<<"Inactive">>)

\* A row of a monthly file with the given investigator names
TimelineSourceRow(site, status, first_screening, subject_status, pi_first) ==
    [MonthlyRow(site, status, first_screening, NaN, subject_status, Num(1))
        EXCEPT !["PI First Name"] = pi_first]

\* Monthly files of 1..MaxTimelineRows rows: one row per site and subject
\* status, the site's status, first-screening date and investigator as each
\* row holds them
TimelineMonthlyFiles ==
    LET Rows == {TimelineSourceRow(site, Active, first_screening, subject_status, pi_first) :
                    site \in {Site007, Num(12)}, first_screening \in {Date(20099), NaN},
                    subject_status \in {Screened, ScreenFailed},
                    pi_first \in {Txt(<<"Ada">>), NaN}}
                 \cup {TimelineSourceRow(Site007, Inactive, NaN, Randomized, Txt(<<"Ada">>))}
    IN  UNION {{DataFrame(MonthlyCols, rows) :
                   rows \in {r \in [1..n -> Rows] :
                                \A i, j \in 1..n :
                                    (i # j /\ r[i]["Site ID"] = r[j]["Site ID"])
                                        => r[i]["Subject Status"] # r[j]["Subject Status"]}} :
               n \in 1..MaxTimelineRows}

InitTimeline ==
    /\ today = 1
    /\ session_state = init_session_state(Now)
    /\ last_run = NoRun
    /\ \E monthly \in TimelineMonthlyFiles :
           args = [f |-> "extract_activation_data",
                   monthly_data |-> process_monthly_data(monthly).val]
    /\ result = NoCall

CallExtractActivation ==
    /\ args.f = "extract_activation_data"
    /\ result = NoCall
    /\ result' = [f |-> args.f, out |-> extract_activation_data(args.monthly_data)]
    /\ UNCHANGED <<session_state, last_run, today, args>>

NextTimeline == CallExtractActivation

SpecTimeline == InitTimeline /\ [][NextTimeline]_vars

TimelineReturned ==
    result # NoCall /\ result.f = "extract_activation_data" /\ result.out.ok

\* C11: no Site Number appears in more than one row of the timeline table
C11_OneRowPerSiteNumber ==
    TimelineReturned =>
        \A i, j \in DOMAIN result.out.val.rows :
            result.out.val.rows[i]["Site Number"] = result.out.val.rows[j]["Site Number"]
                => i = j

\* Site 007 has its first-screening date on one of its two rows only, and
\* the timeline has two rows for it
C11_Witness ==
    /\ TimelineReturned
    /\ Len(args.monthly_data.rows) = 2
    /\ \A i \in 1..2 : args.monthly_data.rows[i]["Site ID"] = Site007
    /\ args.monthly_data.rows[1]["1st Screening"] = Date(20099)
    /\ args.monthly_data.rows[2]["1st Screening"] = NaN
    /\ Len(result.out.val.rows) = 2

\* The text of a name cell: nothing for an absent name
NameText(c) == IF c.k = "str" THEN c.s ELSE <<>>

\* C19: the Investigator of every timeline row is the PI First Name and PI
\* Last Name of a monthly row of that site, joined by one space and trimmed
C19_InvestigatorJoinsNames ==
    TimelineReturned =>
        \A i \in DOMAIN result.out.val.rows :
            \E j \in DOMAIN args.monthly_data.rows :
                LET source == args.monthly_data.rows[j]
                IN  /\ Txt(str(source["Site ID"])) = result.out.val.rows[i]["Site Number"]
                    /\ result.out.val.rows[i]["Investigator"]
                           = Txt(strip_text(NameText(source["PI First Name"]) \o <<" ">>
                                            \o NameText(source["PI Last Name"])))

\* Every row of site 12 names Ada Lee, and the timeline row of site 12 has an
\* empty Investigator
C19_Witness ==
    /\ TimelineReturned
    /\ Len(args.monthly_data.rows) = 1
    /\ args.monthly_data.rows[1]["Site ID"] = Num(12)
    /\ args.monthly_data.rows[1]["PI First Name"] = Txt(<<"Ada">>)
    /\ args.monthly_data.rows[1]["PI Last Name"] = Txt(<<"Lee">>)
    /\ result.out.val.rows[1]["Investigator"] = Txt(<<>>)

----------------------------------------------------------------------------
(* calculate_site_metrics: src/utils/data_processing.py *)

\* pd.Timestamp.today(): the day (days since 1970-01-01) and the hour of it
Timestamp(day, hour) == [day |-> day, hour |-> hour]

\* (later - earlier).dt.days for two dates at midnight
days_between(later, earlier) == later.n - earlier.n

\* (pd.Timestamp.today() - date).dt.days: whole days, rounded down, from the
\* midnight of date to now
days_since_truncating_to_zero(now, date) ==
    LET hours == 24 * (now.day - date.n) + now.hour
    IN  IF hours >= 0 THEN hours \div 24 ELSE 0

days_since(now, date) == (24 * (now.day - date.n) + now.hour) \div 24

\* The cell of Days to First Screening of one row
days_to_first_screening(row, now) ==
    LET activation == row["Date of Activation"]
        first_screening == row["Date of First Screening"]
    IN  IF notnull(activation) /\ notnull(first_screening)
        THEN Num(days_between(first_screening, activation))
        ELSE IF notnull(activation) THEN Num(days_since(now, activation))
        ELSE NaN

\* The numbers of a column, without its NaN cells
Numbers(cells) == SelectSeq(cells, LAMBDA c : c.k = "num")

\* Series.mean(): NaN for no number
mean(cells) ==
    IF Numbers(cells) = <<>> THEN NaN
    ELSE Rat(SumSeq(Numbers(cells)), Len(Numbers(cells)))

RECURSIVE sort_numbers(_)
sort_numbers(cells) ==
    IF cells = <<>> THEN <<>>
    ELSE LET front == sort_numbers(SubSeq(cells, 1, Len(cells) - 1))
             last == cells[Len(cells)]
         IN  SelectSeq(front, LAMBDA c : c.n <= last.n) \o <<last>>
                 \o SelectSeq(front, LAMBDA c : c.n > last.n)

\* Series.median(): the middle number, or the mean of the two middle ones
median(cells) ==
    LET sorted == sort_numbers(Numbers(cells))
        n == Len(sorted)
    IN  IF n = 0 THEN NaN
        ELSE IF n % 2 = 1 THEN Rat(sorted[(n + 1) \div 2].n, 1)
        ELSE Rat(sorted[n \div 2].n + sorted[(n \div 2) + 1].n, 2)

\* Series.isna().sum()
isna_sum(df, c) == Cardinality({i \in DOMAIN df.rows : ~notnull(df.rows[i][c])})

TimelineDateCols ==
    <<"Date of Activation", "Date of First Screening", "Date of First Randomization">>

\* The frame with Days to First Screening, when it has both date columns
WithDays(site_data, now) ==
    IF HasCol(site_data, "Date of Activation")
       /\ HasCol(site_data, "Date of First Screening")
    THEN SetCol(site_data, "Days to First Screening",
                [i \in DOMAIN site_data.rows |->
                    days_to_first_screening(site_data.rows[i], now)])
    ELSE site_data

\* A status test that takes "active" in any letter case
is_active_ignoring_case(status) ==
    status \in {Txt(<<"Active">>), Txt(<<"active">>), Txt(<<"ACTIVE">>)}

\* site_data['Site Status'] == 'Active' on one cell
is_active(status) == status = Txt(<<"Active">>)

\* The metrics dict: the percentages are there for a table with rows
SiteMetrics(site_data) ==
    LET total_sites == Len(site_data.rows)
        active_sites ==
            Cardinality({i \in DOMAIN site_data.rows :
                            is_active(site_data.rows[i]["Site Status"])})
        inactive_sites ==
            Cardinality({i \in DOMAIN site_data.rows :
                            ~is_active(site_data.rows[i]["Site Status"])})
        has_days == HasCol(site_data, "Days to First Screening")
        not_screening == isna_sum(site_data, "Date of First Screening")
        not_randomizing == isna_sum(site_data, "Date of First Randomization")
        counts ==
            ("total_sites" :> total_sites) @@ ("active_sites" :> active_sites) @@
            ("inactive_sites" :> inactive_sites) @@
            ("avg_days_to_first_screening" :>
                IF has_days THEN mean(Column(site_data, "Days to First Screening"))
                ELSE None) @@
            ("median_days_to_first_screening" :>
                IF has_days THEN median(Column(site_data, "Days to First Screening"))
                ELSE None) @@
            ("sites_not_screening" :> not_screening) @@
            ("sites_not_randomizing" :> not_randomizing)
    IN  IF total_sites > 0
        THEN counts @@ ("pct_active" :> Rat(100 * active_sites, total_sites)) @@
             ("pct_not_screening" :> Rat(100 * not_screening, total_sites)) @@
             ("pct_not_randomizing" :> Rat(100 * not_randomizing, total_sites))
        ELSE counts

\* (metrics, site_data), or the KeyError of a column the metrics read
calculate_site_metrics(activation_data, now) ==
    LET site_data == WithDays(CoerceDates(activation_data, TimelineDateCols), now)
    IN  IF \E c \in {"Site Status", "Date of First Screening",
                     "Date of First Randomization"} : ~HasCol(site_data, c)
        THEN Raise("KeyError")
        ELSE Ok([metrics |-> SiteMetrics(site_data), site_data |-> site_data])

----------------------------------------------------------------------------
(* The site activation tab computing its metrics, on one day or another *)

MaxMetricSites == 2

\* The days (since 1970-01-01) of the calls, and the hours of a day
MetricsClock == <<20100, 20101, 20130, 20200>>

MetricsHours == {0, 23}

\* Activation dates before and after the days of the calls, or none
MetricActivations == {Date(20089), Date(20120), NaN}

MetricFirstScreenings == {Date(20099), NaN}

\* The timeline of sites 1..n as generation builds it from a monthly file
\* with the given first-screening dates and a site master with the given
\* activation dates
MetricTimeline(first_screenings, activations) ==
    LET n == Len(first_screenings)
        monthly == DataFrame(MonthlyCols,
                       [i \in 1..n |->
                           MonthlyRow(Num(i),
                                      IF notnull(activations[i]) THEN Active ELSE Inactive,
                                      first_screenings[i], NaN, Screened, Num(1))])
        site == DataFrame(SiteCols, [i \in 1..n |-> SiteRow(Num(i), activations[i])])
    IN  update_activation_dates(
            extract_activation_data(process_monthly_data(monthly).val).val,
            process_site_data(site).val).val

InitSiteMetrics ==
    /\ today = 1
    /\ session_state = init_session_state(Now)
    /\ last_run = NoRun
    /\ \E n \in 1..MaxMetricSites :
           \E first_screenings \in [1..n -> MetricFirstScreenings],
              activations \in [1..n -> MetricActivations] :
               args = [f |-> "calculate_site_metrics",
                       first_screenings |-> first_screenings,
                       activations |-> activations,
                       activation_data |-> MetricTimeline(first_screenings, activations)]
    /\ result = [f |-> "calculate_site_metrics", calls |-> <<>>]

\* render_site_activation_tab on a rerun of the script: at most two reruns
\* are followed
CallSiteMetrics ==
    /\ args.f = "calculate_site_metrics"
    /\ Len(result.calls) < 2
    /\ \E hour \in MetricsHours :
           LET now == Timestamp(MetricsClock[today], hour)
           IN  result' = [result EXCEPT !.calls =
                             Append(@, [now |-> now,
                                        out |-> calculate_site_metrics(
                                                    args.activation_data, now)])]
    /\ UNCHANGED <<session_state, last_run, today, args>>

MetricsNextDay ==
    /\ args.f = "calculate_site_metrics"
    /\ today < MaxDay
    /\ today' = today + 1
    /\ UNCHANGED <<session_state, last_run, args, result>>

NextSiteMetrics == CallSiteMetrics \/ MetricsNextDay

SpecSiteMetrics == InitSiteMetrics /\ [][NextSiteMetrics]_vars

SiteMetricsCalled == args.f = "calculate_site_metrics" /\ result.calls # <<>>

\* The Days to First Screening of row i after a call, NaN without the column
DaysCell(call, i) == get(call.out.val.site_data.rows[i], "Days to First Screening", NaN)

\* C12: Days to First Screening is first screening minus activation in days
\* when both dates are present, the day of the call minus activation when
\* only activation is present (so the same on every call of one day), and
\* has no value when activation is absent
C12_DaysToFirstScreening ==
    SiteMetricsCalled =>
        \A c \in DOMAIN result.calls :
            /\ result.calls[c].out.ok
            /\ \A i \in DOMAIN args.activations :
                   LET activation == args.activations[i]
                       first_screening == args.first_screenings[i]
                   IN  /\ (notnull(activation) /\ notnull(first_screening))
                              => DaysCell(result.calls[c], i)
                                     = Num(first_screening.n - activation.n)
                       /\ (notnull(activation) /\ ~notnull(first_screening))
                              => /\ DaysCell(result.calls[c], i)
                                        = Num(result.calls[c].now.day - activation.n)
                                 /\ \A d \in DOMAIN result.calls :
                                        result.calls[d].now.day = result.calls[c].now.day
                                            => DaysCell(result.calls[d], i)
                                                   = DaysCell(result.calls[c], i)
                       /\ ~notnull(activation) => DaysCell(result.calls[c], i) = NaN

\* Site 1 activated 2025-01-01 and first screened 2025-01-11: 10 days. Site 2
\* activated after the day of the calls and not screened: -20 days at
\* midnight and at 23:00
C12_Witness ==
    /\ SiteMetricsCalled
    /\ Len(result.calls) = 2
    /\ args.activations = <<Date(20089), Date(20120)>>
    /\ args.first_screenings = <<Date(20099), NaN>>
    /\ result.calls[1].now = Timestamp(20100, 0)
    /\ result.calls[2].now = Timestamp(20100, 23)
    /\ DaysCell(result.calls[1], 1) = Num(10)
    /\ DaysCell(result.calls[1], 2) = Num(0 - 20)
    /\ DaysCell(result.calls[2], 2) = Num(0 - 20)

----------------------------------------------------------------------------
(* COSL assignment on reconciled site tables *)

MaxCoslSites == 7

\* Columns a site master may have besides the three required ones
ExtraSiteCols == <<"Hospital", "Investigator", "PI Name", "COSL", "Region">>

\* The site numbers of a file of n rows: each site once, the same backwards,
\* and with the first site on a second row at the end
SiteNumberLists(n) ==
    {[i \in 1..n |-> Num(i)], [i \in 1..n |-> Num(n + 1 - i)],
     [i \in 1..(n + 1) |-> IF i = n + 1 THEN Num(1) ELSE Num(i)]}

\* The text of column c on row i of a file
ExtraCell(c, i) == Txt(<<c>> \o StrInt(i))

RECURSIVE WithExtraCols(_, _)
WithExtraCols(df, extra) ==
    IF extra = <<>> THEN df
    ELSE WithExtraCols(SetCol(df, Head(extra),
                              [i \in DOMAIN df.rows |-> ExtraCell(Head(extra), i)]),
                       Tail(extra))

CoslSiteFiles ==
    {WithExtraCols(DataFrame(SiteCols, [i \in DOMAIN ids |-> SiteRow(ids[i], Date(20089))]),
                   SelectSeq(ExtraSiteCols, LAMBDA c : c \in chosen)) :
        ids \in UNION {SiteNumberLists(n) : n \in 1..MaxCoslSites},
        chosen \in SUBSET Range(ExtraSiteCols)}

InitCosl ==
    /\ today = 1
    /\ session_state = init_session_state(Now)
    /\ last_run = NoRun
    /\ \E site \in CoslSiteFiles :
           args = [f |-> "generate_cosl_data", df |-> process_site_data(site).val]
    /\ result = NoCall

CallGenerateCosl ==
    /\ args.f = "generate_cosl_data"
    /\ result = NoCall
    /\ result' = [f |-> args.f, out |-> generate_cosl_data(args.df)]
    /\ UNCHANGED <<session_state, last_run, today, args>>

NextCosl == CallGenerateCosl

SpecCosl == InitCosl /\ [][NextCosl]_vars

CoslReturned == result # NoCall /\ result.f = "generate_cosl_data" /\ result.out.ok

\* The columns of the model's files that name a lead, and those that name an
\* investigator
LeadCols == {"COSL"}
InvestigatorCols == {"PI Name", "Investigator"}

\* The first column of the table among names, "" for none
FirstOf(names) ==
    IF \E i \in DOMAIN args.df.cols : args.df.cols[i] \in names
    THEN args.df.cols[CHOOSE i \in DOMAIN args.df.cols :
                          /\ args.df.cols[i] \in names
                          /\ \A j \in 1..(i - 1) : args.df.cols[j] \notin names]
    ELSE ""

\* The assignments are the values of column c, row by row
AssignedFrom(c) ==
    /\ Len(result.out.val.rows) = Len(args.df.rows)
    /\ \A i \in DOMAIN args.df.rows :
           /\ result.out.val.rows[i]["Site Number"] = args.df.rows[i]["Site Number"]
           /\ result.out.val.rows[i]["Assigned COSL"] = args.df.rows[i][c]

DEFAULT_COSL_NAMES ==
    <<"Evelina Pogoriler", "Jayden Cho", "Janice Graboso", "Farah Ridore",
      "Malini Shankar">>

\* The index of the first row of the table with site number v
FirstRowOf(v) ==
    CHOOSE i \in DOMAIN args.df.rows :
        /\ args.df.rows[i]["Site Number"] = v
        /\ \A j \in 1..(i - 1) : args.df.rows[j]["Site Number"] # v

\* One row per distinct site number, in order of first appearance, the k-th
\* (from 0) with name k mod 5 of the list
AssignedRoundRobin ==
    LET rows == result.out.val.rows
    IN  /\ {rows[k]["Site Number"] : k \in DOMAIN rows}
               = {args.df.rows[i]["Site Number"] : i \in DOMAIN args.df.rows}
        /\ \A k, l \in DOMAIN rows :
               k < l => FirstRowOf(rows[k]["Site Number"]) < FirstRowOf(rows[l]["Site Number"])
        /\ \A k \in DOMAIN rows :
               rows[k]["Assigned COSL"] = Txt(<<DEFAULT_COSL_NAMES[((k - 1) % 5) + 1]>>)

\* C13: the assignments come from the lead column if the table has one,
\* else from the investigator column if it has one, else (and only then)
\* from the round robin; no other column is their source
C13_SourcePriority ==
    CoslReturned =>
        IF FirstOf(LeadCols) # "" THEN AssignedFrom(FirstOf(LeadCols))
        ELSE IF FirstOf(InvestigatorCols) # "" THEN AssignedFrom(FirstOf(InvestigatorCols))
        ELSE AssignedRoundRobin

\* A site master with a Hospital column and neither a lead nor an
\* investigator column: the leads assigned are the hospitals
C13_Witness ==
    /\ CoslReturned
    /\ args.df.cols = SiteCols \o <<"Hospital">>
    /\ Len(args.df.rows) = 2
    /\ result.out.val.rows[1]["Assigned COSL"] = ExtraCell("Hospital", 1)

\* C14: in the round-robin fallback (no lead, investigator or other column
\* taken as one) the k-th distinct site in order of first appearance has
\* name k mod 5 and exactly one row
C14_RoundRobin ==
    (CoslReturned /\ first_cosl_col(args.df.cols) = "" /\ first_pi_col(args.df.cols) = "")
        => AssignedRoundRobin

\* Seven sites and an eighth row repeating the first: seven assignments, the
\* sixth and seventh with the first and second name again
C14_Witness ==
    /\ CoslReturned
    /\ args.df.cols = SiteCols
    /\ Len(args.df.rows) = 8
    /\ Len(result.out.val.rows) = 7
    /\ result.out.val.rows[5]["Assigned COSL"] = Txt(<<"Malini Shankar">>)
    /\ result.out.val.rows[6]["Assigned COSL"] = Txt(<<"Evelina Pogoriler">>)
    /\ result.out.val.rows[7]["Assigned COSL"] = Txt(<<"Jayden Cho">>)

----------------------------------------------------------------------------
(* The reconcilers on files as read *)

MaxReconcileRows == 1

\* The headers a file of each kind may have, in file order: required
\* columns, synonyms, headers with surrounding blanks, and a header that is
\* not text
EnrollmentPool ==
    <<"Site ID", "Site", "Country", "Region", "Screenings", " Screened", "Total Screened",
      "Failed", "Screen Failed", "Enrolled", "Randomized ", "#2025">>

MonthlyPool ==
    <<"Site Number", " Site ID ", "Site Name", "Active Status", "Status", "Country",
      "Participant Status", "Subject Status", "1st Screening", "#2025-01-01">>

SitePool ==
    <<"Site", "Site ID", "Site Number ", "Location", "Country", "Date Activated",
      "Activation Date", "Site Activated Date", "#2025">>

CountHeaders ==
    {"Screenings", " Screened", "Total Screened", "Failed", "Screen Failed", "Enrolled",
     "Randomized "}

DateHeaders == {"Date Activated", "Activation Date", "Site Activated Date", "1st Screening"}

\* Cells a count column may hold: negative, not a number, missing, digits
SpecialCells ==
    <<Num(0 - 2), Txt(<<"n", "/", "a">>), Txt(<<"-", "3">>), NaN, Txt(<<"4">>), Num(7)>>

DateCells == <<Txt(<<"2025-01-01">>), Date(20099), Txt(<<"n", "/", "a">>), NaN>>

\* The cell under the p-th header of the pool on row i; cells selects what
\* the count columns hold
RawCell(header, p, i, cells) ==
    IF header \in CountHeaders
    THEN (IF cells = 0 THEN Num(p + 20 * i)
          ELSE SpecialCells[((p + i + 3 * cells) % Len(SpecialCells)) + 1])
    ELSE IF header \in DateHeaders THEN DateCells[((p + i) % Len(DateCells)) + 1]
    ELSE Txt(<<header>> \o StrInt(i))

\* The file with the chosen headers of the pool
RawFile(pool, chosen, n, cells) ==
    LET index(h) == CHOOSE p \in DOMAIN pool : pool[p] = h
    IN  DataFrame(SelectSeq(pool, LAMBDA h : h \in chosen),
                  [i \in 1..n |-> [h \in chosen |-> RawCell(h, index(h), i, cells)]])

InitReconcile ==
    /\ today = 1
    /\ session_state = init_session_state(Now)
    /\ last_run = NoRun
    /\ \E n \in 1..MaxReconcileRows :
           \/ \E chosen \in SUBSET Range(EnrollmentPool), cells \in 0..2 :
                  args = [f |-> "process_enrollment_data",
                          df |-> RawFile(EnrollmentPool, chosen, n, cells)]
           \/ \E chosen \in SUBSET Range(MonthlyPool) :
                  args = [f |-> "process_monthly_data",
                          df |-> RawFile(MonthlyPool, chosen, n, 0)]
           \/ \E chosen \in SUBSET Range(SitePool) :
                  args = [f |-> "process_site_data",
                          df |-> RawFile(SitePool, chosen, n, 0)]
    /\ result = NoCall

CallProcessEnrollment ==
    /\ args.f = "process_enrollment_data"
    /\ result = NoCall
    /\ result' = [f |-> args.f, out |-> process_enrollment_data(args.df)]
    /\ UNCHANGED <<session_state, last_run, today, args>>

CallProcessMonthly ==
    /\ args.f = "process_monthly_data"
    /\ result = NoCall
    /\ result' = [f |-> args.f, out |-> process_monthly_data(args.df)]
    /\ UNCHANGED <<session_state, last_run, today, args>>

CallProcessSite ==
    /\ args.f = "process_site_data"
    /\ result = NoCall
    /\ result' = [f |-> args.f, out |-> process_site_data(args.df)]
    /\ UNCHANGED <<session_state, last_run, today, args>>

NextReconcile == CallProcessEnrollment \/ CallProcessMonthly \/ CallProcessSite

SpecReconcile == InitReconcile /\ [][NextReconcile]_vars

ReconcileReturned ==
    /\ result # NoCall
    /\ result.f \in {"process_enrollment_data", "process_monthly_data", "process_site_data"}

\* The headers of the pools with surrounding blanks, and what they are
\* without them
TrimmedHeader ==
    (" Screened" :> "Screened") @@ ("Randomized " :> "Randomized") @@
    (" Site ID " :> "Site ID") @@ ("Site Number " :> "Site Number")

Trim(h) == IF h \in DOMAIN TrimmedHeader THEN TrimmedHeader[h] ELSE h

\* The columns of the file that was read, by their trimmed names
InputCols == {Trim(h) : h \in Range(args.df.cols)}

InputCell(i, col) ==
    args.df.rows[i][CHOOSE h \in Range(args.df.cols) : Trim(h) = col]

\* The required columns and synonym lists of the reconciler that was called
ReqColsOf(f) ==
    CASE f = "process_enrollment_data" -> EnrollmentReqCols
      [] f = "process_monthly_data" -> MonthlyReqCols
      [] OTHER -> SiteReqCols

AltColsOf(f) ==
    CASE f = "process_enrollment_data" -> EnrollmentAltCols
      [] f = "process_monthly_data" -> MonthlyAltCols
      [] OTHER -> SiteAltCols

\* What the reconciler's last step makes of a cell of column col
Converted(f, col, cell) ==
    CASE f = "process_enrollment_data" /\ col \in {"Screened", "Screen Failed", "Randomized"}
             -> coerce_count(cell)
      [] f = "process_monthly_data" /\ col \in {"1st Screening", "1st Enrollment"}
             -> to_datetime(cell)
      [] f = "process_site_data" /\ col = "Site Activated Date" -> to_datetime(cell)
      [] OTHER -> cell

\* C15: a required column of the file is kept (its cells converted, never
\* replaced by a synonym's); an absent one takes the cells of the first
\* synonym of its list that the table has when it is filled (a column of the
\* file, or a required column filled before it), and stays absent, with no
\* error, when the table has none
C15_FirstSynonymFillsAbsent ==
    (ReconcileReturned /\ result.out.ok) =>
        LET req == ReqColsOf(result.f)
            alts == AltColsOf(result.f)
            out == result.out.val
        IN  \A k \in DOMAIN req :
                LET avail == InputCols \cup {req[j] : j \in {x \in 1..(k - 1) :
                                                              HasCol(out, req[x])}}
                    found == {a \in DOMAIN alts[req[k]] : alts[req[k]][a] \in avail}
                    first == alts[req[k]][CHOOSE a \in found : \A b \in found : a <= b]
                IN  IF req[k] \in InputCols
                    THEN \A i \in DOMAIN out.rows :
                             out.rows[i][req[k]]
                                 = Converted(result.f, req[k], InputCell(i, req[k]))
                    ELSE IF found = {} THEN ~HasCol(out, req[k])
                    ELSE /\ HasCol(out, req[k])
                         /\ \A i \in DOMAIN out.rows :
                                out.rows[i][req[k]]
                                    = Converted(result.f, req[k],
                                                IF first \in InputCols
                                                THEN InputCell(i, first)
                                                ELSE out.rows[i][first])

\* An enrollment file with Screenings before Total Screened and no Screened:
\* Screened takes the cells of Total Screened, the first of its synonyms
C15_Witness ==
    /\ ReconcileReturned
    /\ result.f = "process_enrollment_data"
    /\ args.df.cols = <<"Site ID", "Screenings", "Total Screened">>
    /\ args.df.rows[1]["Total Screened"] = Num(27)
    /\ args.df.rows[1]["Screenings"] = Num(25)
    /\ result.out.ok
    /\ result.out.val.rows[1]["Screened"] = Num(27)

\* C16: after process_enrollment_data every cell of Screened, Screen Failed
\* and Randomized is a number that is not negative
C16_CountsNotNegative ==
    (ReconcileReturned /\ result.f = "process_enrollment_data" /\ result.out.ok) =>
        \A i \in DOMAIN result.out.val.rows :
            \A col \in {"Screened", "Screen Failed", "Randomized"} :
                HasCol(result.out.val, col) =>
                    /\ result.out.val.rows[i][col].k = "num"
                    /\ result.out.val.rows[i][col].n >= 0

\* What the coercion does give: a number in every cell, 0 for a cell that is
\* missing or not a number
C16_CountsAreNumbers ==
    (ReconcileReturned /\ result.f = "process_enrollment_data" /\ result.out.ok) =>
        \A i \in DOMAIN result.out.val.rows :
            \A col \in {"Screened", "Screen Failed", "Randomized"} :
                HasCol(result.out.val, col) => result.out.val.rows[i][col].k = "num"

\* The Failed column holds -2 and Screen Failed, filled from it, is -2
C16_Witness ==
    /\ ReconcileReturned
    /\ result.f = "process_enrollment_data"
    /\ args.df.cols = <<"Failed">>
    /\ args.df.rows[1]["Failed"] = Num(0 - 2)
    /\ result.out.ok
    /\ result.out.val.rows[1]["Screen Failed"] = Num(0 - 2)

\* C17: a reconciler raises nothing and returns a table none of whose
\* column names has surrounding blanks
C17_ReconcilersNeverRaise ==
    ReconcileReturned =>
        /\ result.out.ok
        /\ \A c \in Range(result.out.val.cols) : c \notin DOMAIN TrimmedHeader

\* A site file whose second header is the number 2025: process_site_data
\* raises
C17_Witness ==
    /\ ReconcileReturned
    /\ result.f = "process_site_data"
    /\ args.df.cols = <<"Site Number ", "#2025">>
    /\ result.out = Raise("AttributeError")

----------------------------------------------------------------------------
(* Generation from three tabular files, some without a column *)

\* Files with text headers, whole or with one column (or two) left out
GapEnrollmentFiles == {File(EnrollmentA), File(DropCol(EnrollmentA, "Screened"))}

GapMonthlyFiles ==
    {File(MonthlyA), File(DropCol(MonthlyA, "1st Screening")),
     File(DropCol(MonthlyA, "1st Enrollment")), File(DropCol(MonthlyA, "Total")),
     File(DropCol(MonthlyA, "Subject Status")),
     File(DropCol(DropCol(MonthlyA, "Subject Status"), "Status"))}

GapSiteFiles ==
    {File(SiteA), File(DropCol(SiteA, "Site Number")),
     File(DropCol(SiteA, "Site Activated Date")), File(DropCol(SiteA, "Country"))}

InitGaps ==
    /\ today = 1
    /\ session_state = init_session_state(Now)
    /\ last_run = NoRun
    /\ args \in [f : {"process_data"},
                 enrollment_file : GapEnrollmentFiles,
                 monthly_file : GapMonthlyFiles,
                 site_file : GapSiteFiles,
                 target_enrollment : 1..MaxTarget,
                 sf_rate_override : Overrides]
    /\ result = NoCall

\* main() with the Generate button pressed, on the files of args
GenerateFromFiles ==
    /\ args.f = "process_data"
    /\ result = NoCall
    /\ \E projection_end \in ProjectionEnds :
           \E out \in process_data(session_state, args.enrollment_file, args.monthly_file,
                                   args.site_file, args.target_enrollment, projection_end,
                                   args.sf_rate_override, Now) :
               /\ session_state' = out.state
               /\ last_run' = [ret |-> out.ret, shown |-> out.shown]
               /\ result' = [f |-> args.f, ret |-> out.ret]
    /\ UNCHANGED <<today, args>>

NextGaps == GenerateFromFiles

SpecGaps == InitGaps /\ [][NextGaps]_vars

GapsReturned == result # NoCall /\ result.f = "process_data"

\* C18: with three tabular files supplied, a column absent from one of them
\* does not stop generation: process_data returns True and
\* dashboard_generated is True
C18_ShapeGapStillGenerates ==
    GapsReturned => (result.ret /\ session_state.dashboard_generated)

\* The monthly file has no 1st Enrollment column; process_data shows the
\* error and leaves dashboard_generated False
C18_Witness ==
    /\ GapsReturned
    /\ args.enrollment_file = File(EnrollmentA)
    /\ args.monthly_file = File(DropCol(MonthlyA, "1st Enrollment"))
    /\ args.site_file = File(SiteA)
    /\ ~result.ret
    /\ last_run.shown = "error"
    /\ ~session_state.dashboard_generated

----------------------------------------------------------------------------
(* The backfill changes the activation dates of matched rows only *)

\* C20: update_activation_dates keeps the rows, their order and every other
\* column of the timeline; a row gets a Date of Activation only from a
\* site-master row with its site number and a date, a row with no such
\* site-master row has none, and a site-master row without a date leaves the
\* date another row gave
C20_BackfillFrame ==
    (BackfillReturned /\ result.out.ok) =>
        LET before == args.activation_data
            after == result.out.val
        IN  /\ Len(after.rows) = Len(before.rows)
            /\ after.cols \in {before.cols, Append(before.cols, "Date of Activation")}
            /\ \A i \in DOMAIN before.rows :
                   /\ \A c \in DOMAIN before.rows[i] : after.rows[i][c] = before.rows[i][c]
                   /\ LET dates ==
                              {args.site_data.rows[j]["Site Activated Date"] :
                                  j \in {k \in DOMAIN args.site_data.rows :
                                            /\ Txt(str(args.site_data.rows[k]["Site Number"]))
                                                   = before.rows[i]["Site Number"]
                                            /\ notnull(args.site_data.rows[k]
                                                           ["Site Activated Date"])}}
                      IN  get(after.rows[i], "Date of Activation", NaN)
                              \in (IF dates = {} THEN {NaN} ELSE dates)

\* Sites "007" and 12 in the timeline; the site master has 007 with a date
\* and then 007 again without one: row 1 keeps the date, row 2 has none
C20_Witness ==
    /\ BackfillReturned
    /\ Len(args.activation_data.rows) = 2
    /\ args.activation_data.rows[1]["Site Number"] = Txt(<<"0", "0", "7">>)
    /\ args.activation_data.rows[2]["Site Number"] = Txt(<<"1", "2">>)
    /\ Len(args.site_data.rows) = 2
    /\ args.site_data.rows[1] = SiteRow(Site007, Date(20089))
    /\ args.site_data.rows[2] = SiteRow(Site007, NaN)
    /\ result.out.val.rows[1]["Date of Activation"] = Date(20089)
    /\ result.out.val.rows[2]["Date of Activation"] = NaN
    /\ result.out.val.rows[2]["Site Status"] = Active

----------------------------------------------------------------------------
(* The site counts of calculate_site_metrics *)

MaxCountSites == 2

SiteStatusCells == {Active, Txt(<<"active">>), Txt(<<"ACTIVE">>), Inactive, NaN}

\* The timeline generation builds from a monthly file of sites 1..n with the
\* given statuses and dates: a frame with no column for a file with no row
CountTimeline(statuses, first_screenings, first_enrollments) ==
    extract_activation_data(
        process_monthly_data(
            DataFrame(MonthlyCols,
                      [i \in DOMAIN statuses |->
                          MonthlyRow(Num(i), statuses[i], first_screenings[i],
                                     first_enrollments[i], Screened, Num(1))])).val).val

InitSiteCounts ==
    /\ today = 1
    /\ session_state = init_session_state(Now)
    /\ last_run = NoRun
    /\ \E n \in 0..MaxCountSites :
           \E statuses \in [1..n -> SiteStatusCells],
              first_screenings \in [1..n -> {Date(20099), NaN}],
              first_enrollments \in [1..n -> {Date(20120), NaN}],
              keeps_columns \in BOOLEAN :
               /\ keeps_columns => n = 0
               /\ args = [f |-> "site_counts",
                          statuses |-> statuses,
                          first_screenings |-> first_screenings,
                          first_enrollments |-> first_enrollments,
                          activation_data |->
                              IF keeps_columns THEN DataFrame(ActivationCols, <<>>)
                              ELSE CountTimeline(statuses, first_screenings,
                                                 first_enrollments)]
    /\ result = NoCall

CallSiteCounts ==
    /\ args.f = "site_counts"
    /\ result = NoCall
    /\ result' = [f |-> "calculate_site_metrics",
                  out |-> calculate_site_metrics(args.activation_data,
                                                 Timestamp(MetricsClock[today], 0))]
    /\ UNCHANGED <<session_state, last_run, today, args>>

NextSiteCounts == CallSiteCounts

SpecSiteCounts == InitSiteCounts /\ [][NextSiteCounts]_vars

SiteCountsReturned ==
    args.f = "site_counts" /\ result # NoCall /\ result.f = "calculate_site_metrics"

\* The number of cells of a list that are in a set
HowMany(cells, set) == Cardinality({i \in DOMAIN cells : cells[i] \in set})

\* C21: active_sites counts the statuses that are exactly "Active",
\* inactive_sites all the others (a missing status too), so that the two add
\* up to total_sites; sites_not_screening and sites_not_randomizing count the
\* absent dates; the percentages are there only for total_sites > 0, and a
\* frame with no column raises KeyError, nothing about a division
C21_SiteCounts ==
    SiteCountsReturned =>
        IF result.out.ok
        THEN LET metrics == result.out.val.metrics
                 n == Len(args.statuses)
                 active == HowMany(args.statuses, {Txt(<<"Active">>)})
             IN  /\ metrics["total_sites"] = n
                 /\ metrics["active_sites"] = active
                 /\ metrics["inactive_sites"] = n - active
                 /\ metrics["sites_not_screening"] = HowMany(args.first_screenings, {NaN})
                 /\ metrics["sites_not_randomizing"]
                        = HowMany(args.first_enrollments, {NaN})
                 /\ n = 0 => {"pct_active", "pct_not_screening", "pct_not_randomizing"}
                                 \cap DOMAIN metrics = {}
                 /\ n > 0 => /\ RatEQ(metrics["pct_active"], Rat(100 * active, n))
                             /\ metrics["pct_active"].d # 0
        ELSE result.out = Raise("KeyError") /\ args.activation_data.cols = <<>>

\* Statuses "Active" and "active": one active site, one inactive, 50 percent
C21_Witness ==
    /\ SiteCountsReturned
    /\ args.statuses = <<Active, Txt(<<"active">>)>>
    /\ args.first_screenings = <<NaN, Date(20099)>>
    /\ result.out.ok
    /\ result.out.val.metrics["active_sites"] = 1
    /\ result.out.val.metrics["inactive_sites"] = 1
    /\ result.out.val.metrics["sites_not_screening"] = 1
    /\ result.out.val.metrics["pct_active"] = Rat(100, 2)

----------------------------------------------------------------------------
(* The rollup by lead of the COSL performance tab *)

\* df[c] = df[c].astype(str)
astype_str(df, c) == SetCol(df, c, [i \in DOMAIN df.rows |-> Txt(str(df.rows[i][c]))])

\* The right rows whose key equals the key of a left row, in the right order
matches(row, right, on) == SelectSeq(right.rows, LAMBDA r : r[on] = row[on])

\* One left row joined to its matches; with none, the right columns are NaN
joined_rows(row, right, on) ==
    IF matches(row, right, on) = <<>>
    THEN <<[c \in DOMAIN row \cup Range(right.cols) |->
               IF c \in DOMAIN row THEN row[c] ELSE NaN]>>
    ELSE [j \in DOMAIN matches(row, right, on) |->
             [c \in DOMAIN row \cup Range(right.cols) |->
                 IF c \in DOMAIN row THEN row[c] ELSE matches(row, right, on)[j][c]]]

RECURSIVE concat_join(_, _, _)
concat_join(rows, right, on) ==
    IF rows = <<>> THEN <<>>
    ELSE joined_rows(Head(rows), right, on) \o concat_join(Tail(rows), right, on)

\* left.merge(right, on=on, how='left')
merge_left(left, right, on) ==
    DataFrame(left.cols \o SelectSeq(right.cols, LAMBDA c : c # on),
              concat_join(left.rows, right, on))

\* The merged site view the tab hands to calculate_cosl_metrics
cosl_site_view(cosl_data, activation_data) ==
    merge_left(astype_str(activation_data, "Site Number"),
               astype_str(cosl_data, "Site Number"), "Site Number")

\* The fallback names in the order str sorts them
SortedLeadNames ==
    <<"Evelina Pogoriler", "Farah Ridore", "Janice Graboso", "Jayden Cho",
      "Malini Shankar">>

\* A grouping that gives the rows without a key a group of their own
groupby_keys_with_null(df, col) ==
    [i \in DOMAIN SortedLeadNames |-> Txt(<<SortedLeadNames[i]>>)] \o <<NaN>>

\* The keys df.groupby(col) goes through: sorted, the null key dropped
groupby_keys(df, col) ==
    SelectSeq([i \in DOMAIN SortedLeadNames |-> Txt(<<SortedLeadNames[i]>>)],
              LAMBDA k : \E r \in Range(df.rows) : r[col] = k)

\* One row of the rollup
cosl_metric_row(cosl, group) ==
    LET total_sites == Len(group.rows)
        sites_screened == total_sites - isna_sum(group, "Date of First Screening")
        sites_randomized == total_sites - isna_sum(group, "Date of First Randomization")
        avg_days == IF HasCol(group, "Days to First Screening")
                    THEN mean(Column(group, "Days to First Screening"))
                    ELSE None
    IN  ("COSL" :> cosl) @@
        ("Sites Assigned" :> Num(total_sites)) @@
        ("Sites Screened" :> Num(sites_screened)) @@
        ("Sites Not Screened" :> Num(total_sites - sites_screened)) @@
        ("Sites Randomized" :> Num(sites_randomized)) @@
        ("Sites Not Randomized" :> Num(total_sites - sites_randomized)) @@
        ("Avg Days to First Screening" :>
            IF avg_days \in {None, NaN} THEN Num(0) ELSE avg_days)

CoslMetricCols ==
    <<"COSL", "Sites Assigned", "Sites Screened", "Sites Not Screened",
      "Sites Randomized", "Sites Not Randomized", "Avg Days to First Screening">>

\* pd.DataFrame of the rows: a frame with no column when there is no row
calculate_cosl_metrics(cosl_site_data) ==
    LET keys == SelectSeq(groupby_keys(cosl_site_data, "Assigned COSL"), notnull)
        rows == [i \in DOMAIN keys |->
                    cosl_metric_row(keys[i],
                                    Where(cosl_site_data, "Assigned COSL", keys[i]))]
    IN  IF rows = <<>> THEN DataFrame(<<>>, <<>>) ELSE DataFrame(CoslMetricCols, rows)

MaxLeadSites == 3

\* A site's lead: a name, a null cell, or no row in the assignment table
LeadChoices == {Txt(<<"Jayden Cho">>), Txt(<<"Evelina Pogoriler">>), NaN, None}

LeadSites(first_screenings, first_enrollments) ==
    DataFrame(<<"Site Number", "Date of First Screening", "Date of First Randomization">>,
              [i \in DOMAIN first_screenings |->
                  ("Site Number" :> Num(i)) @@
                  ("Date of First Screening" :> first_screenings[i]) @@
                  ("Date of First Randomization" :> first_enrollments[i])])

LeadAssignments(leads) ==
    LET site_numbers == SelectSeq([i \in DOMAIN leads |-> i], LAMBDA i : leads[i] # None)
    IN  DataFrame(<<"Site Number", "Assigned COSL">>,
                  [j \in DOMAIN site_numbers |->
                      ("Site Number" :> Txt(StrInt(site_numbers[j]))) @@
                      ("Assigned COSL" :> leads[site_numbers[j]])])

InitCoslMetrics ==
    /\ today = 1
    /\ session_state = init_session_state(Now)
    /\ last_run = NoRun
    /\ \E n \in 0..MaxLeadSites :
           \E leads \in [1..n -> LeadChoices],
              first_screenings \in [1..n -> {Date(20099), NaN}],
              first_enrollments \in [1..n -> {Date(20120), NaN}] :
               args = [f |-> "cosl_metrics",
                       leads |-> leads,
                       cosl_site_data |->
                           cosl_site_view(LeadAssignments(leads),
                                          LeadSites(first_screenings, first_enrollments))]
    /\ result = NoCall

CallCoslMetrics ==
    /\ args.f = "cosl_metrics"
    /\ result = NoCall
    /\ result' = [f |-> "calculate_cosl_metrics",
                  out |-> calculate_cosl_metrics(args.cosl_site_data)]
    /\ UNCHANGED <<session_state, last_run, today, args>>

NextCoslMetrics == CallCoslMetrics

SpecCoslMetrics == InitCoslMetrics /\ [][NextCoslMetrics]_vars

CoslMetricsReturned ==
    args.f = "cosl_metrics" /\ result # NoCall /\ result.f = "calculate_cosl_metrics"

\* The rows of the input that have a lead
WithLead == {i \in DOMAIN args.leads : args.leads[i] \notin {NaN, None}}

\* C22: the rollup has one row for each distinct non-null lead and none for
\* the sites without a lead; in every row screened + not screened and
\* randomized + not randomized both give Sites Assigned, and the Sites
\* Assigned add up to the number of input rows that have a lead
C22_RollupPerLead ==
    CoslMetricsReturned =>
        LET rows == result.out.rows
        IN  /\ {rows[i]["COSL"] : i \in DOMAIN rows} = {args.leads[i] : i \in WithLead}
            /\ Len(rows) = Cardinality({args.leads[i] : i \in WithLead})
            /\ \A i \in DOMAIN rows :
                   /\ rows[i]["Sites Screened"].n + rows[i]["Sites Not Screened"].n
                          = rows[i]["Sites Assigned"].n
                   /\ rows[i]["Sites Randomized"].n + rows[i]["Sites Not Randomized"].n
                          = rows[i]["Sites Assigned"].n
                   /\ rows[i]["Sites Assigned"].n
                          = Cardinality({j \in WithLead : args.leads[j] = rows[i]["COSL"]})
            /\ SumSeq([i \in DOMAIN rows |-> rows[i]["Sites Assigned"]])
                   = Cardinality(WithLead)

\* Three sites: one with a lead, one with a null lead, one not in the
\* assignment table: a single row of one site
C22_Witness ==
    /\ CoslMetricsReturned
    /\ args.leads = <<Txt(<<"Jayden Cho">>), NaN, None>>
    /\ Len(result.out.rows) = 1
    /\ result.out.rows[1]["COSL"] = Txt(<<"Jayden Cho">>)
    /\ result.out.rows[1]["Sites Assigned"] = Num(1)

----------------------------------------------------------------------------
(* The monthly screening extractor: labels, month rows, synthetic months *)

MaxFallbackCols == 13

\* Headers no month format parses, in file order
FallbackHeaders ==
    <<"V01", "V02", "V03", "V04", "V05", "V06", "V07", "V08", "V09", "V10", "V11",
      "V12", "V13", "V14", "V15", "V16">>

ScreeningLabelPool ==
    {Screened, ScreenFailed, Randomized, Txt(<<"Screened - Failed">>),
     Txt(<<"SCREEN FAIL">>), Txt(<<"In Screening">>), Txt(<<"Screen Failure">>),
     Txt(<<"Enrolled">>)}

\* The labels of the pool that contain "fail" in some letter case
FailLabels ==
    {ScreenFailed, Txt(<<"Screened - Failed">>), Txt(<<"SCREEN FAIL">>),
     Txt(<<"Screen Failure">>)}

ScreeningLabelLists ==
    UNION {{l \in [1..n -> ScreeningLabelPool] : \A i, j \in 1..n : i # j => l[i] # l[j]} :
           n \in 2..3}

ScreeningMonthHeaders == {"Feb-2025", "January-2025", "Dec-2024", "13-2025"}

ScreeningHeaderLists ==
    UNION {{h \in [1..n -> ScreeningMonthHeaders] : \A i, j \in 1..n : i # j => h[i] # h[j]} :
           n \in 1..MaxMonthCols}

ScreeningPatterns == {"counts", "idle month", "text cell", "failed only"}

\* The cell of row r under the c-th month column. In a "labels" file row r
\* holds r; in the others the rows are Screened, Screen Failed, Randomized
\* for site 1, then for site 2
ScreeningCell(kind, pattern, text_col, r, c) ==
    LET role == ((r - 1) % 3) + 1
        site == ((r - 1) \div 3) + 1
    IN  IF kind = "labels" THEN Num(r)
        ELSE IF kind = "fallback"
        THEN IF c = text_col THEN Txt(<<"n", "/", "a">>)
             ELSE IF role = 1 THEN Num(2)
             ELSE IF role = 2 THEN Num(1)
             ELSE Num(c)
        ELSE IF pattern = "idle month" /\ c = 1 THEN Num(0)
        ELSE IF pattern = "text cell" /\ c = 1 /\ r = 3 THEN Txt(<<"n", "/", "a">>)
        ELSE IF pattern = "failed only" /\ c = 1 /\ role = 1 THEN Num(0)
        ELSE IF role = 1 THEN Num(c + site)
        ELSE IF role = 2 THEN Num(1)
        ELSE Num(c)

RECURSIVE WithCells(_, _, _, _)
WithCells(df, headers, cells, c) ==
    IF headers = <<>> THEN df
    ELSE WithCells(SetCol(df, Head(headers), [r \in DOMAIN df.rows |-> cells[r][c]]),
                   Tail(headers), cells, c + 1)

\* The monthly file with one row per label and the given month columns
ScreeningFile(labels, headers, cells) ==
    WithCells(DataFrame(MonthlyCols,
                        [r \in DOMAIN labels |->
                            MonthlyRow(Num(((r - 1) \div 3) + 1), Active, Date(20099), NaN,
                                       labels[r], Num(r))]),
              headers, cells, 1)

ScreeningArgs(kind, pattern, text_col, labels, headers) ==
    LET cells == [r \in DOMAIN labels |->
                     [c \in DOMAIN headers |-> ScreeningCell(kind, pattern, text_col, r, c)]]
    IN  [f |-> "screening", kind |-> kind, pattern |-> pattern, text_col |-> text_col,
         labels |-> labels, headers |-> headers, cells |-> cells,
         monthly_data |-> process_monthly_data(ScreeningFile(labels, headers, cells)).val]

InitScreening ==
    /\ today = 1
    /\ session_state = init_session_state(Now)
    /\ last_run = NoRun
    /\ \/ \E labels \in ScreeningLabelLists :
              args = ScreeningArgs("labels", "", 0, labels, <<"Jan-2025">>)
       \/ \E headers \in ScreeningHeaderLists, pattern \in ScreeningPatterns :
              args = ScreeningArgs("months", pattern, 0,
                                   <<Screened, ScreenFailed, Randomized,
                                     Screened, ScreenFailed, Randomized>>, headers)
       \/ \E n \in 1..MaxFallbackCols :
              \E text_col \in 0..n :
                  args = ScreeningArgs("fallback", "", text_col,
                                       <<Screened, ScreenFailed, Randomized>>,
                                       SubSeq(FallbackHeaders, 1, n))
    /\ result = NoCall

CallScreening ==
    /\ args.f = "screening"
    /\ result = NoCall
    /\ \E value \in extract_monthly_screening_data(args.monthly_data) :
           result' = [f |-> "extract_monthly_screening_data", out |-> value]
    /\ UNCHANGED <<session_state, last_run, today, args>>

NextScreening == CallScreening

SpecScreening == InitScreening /\ [][NextScreening]_vars

ScreeningReturned(kind) ==
    /\ args.f = "screening"
    /\ args.kind = kind
    /\ result # NoCall
    /\ result.f = "extract_monthly_screening_data"

\* C23: a label that contains "fail" is never the one whose rows are summed
\* as Screened, and the rows summed as Screen Failed are those of a label
\* that contains "fail", whatever the labels of the table and their order
\* (row r of the file holds the count r, so a sum names its row)
C23_FailNeverScreened ==
    (ScreeningReturned("labels") /\ result.out # None) =>
        LET row == result.out.rows[1]
        IN  /\ args.labels[row["Screened"].n] \notin FailLabels
            /\ args.labels[row["Screen Failed"].n] \in FailLabels

\* The labels "Screened - Failed" and "Screen Failed": the Screened count
\* is the one of the "Screened - Failed" row
C23_Witness ==
    /\ ScreeningReturned("labels")
    /\ args.labels = <<Txt(<<"Screened - Failed">>), ScreenFailed>>
    /\ result.out # None
    /\ result.out.rows[1]["Screened"] = Num(1)
    /\ result.out.rows[1]["Screen Failed"] = Num(2)

\* The sum of the cells of column c in the rows of one label
LabelSum(label, c) ==
    SumSeq([r \in DOMAIN args.labels |->
               IF args.labels[r] = label THEN args.cells[r][c] ELSE Num(0)])

\* The row the month column c should give, its rate in tenths of a percent
\* as the table shows it: the set of rows that agree with the claim
MonthRowsOf(c) ==
    LET screened == LabelSum(Screened, c)
        failed == LabelSum(ScreenFailed, c)
    IN  {("Month" :> Txt(chars[args.headers[c]])) @@ ("Screened" :> Num(screened)) @@
         ("Screen Failed" :> Num(failed)) @@
         ("Randomized" :> Num(LabelSum(Randomized, c))) @@
         ("Screen Failure Rate" :> Tenths(t)) @@
         ("Month_dt" :> ExpectedMonth[args.headers[c]]) :
            t \in IF screened = 0 THEN {0} ELSE round(1000 * failed, screened)}

\* The month columns of the file whose header names a month
ResolvedCols == {c \in DOMAIN args.headers : ExpectedMonth[args.headers[c]] # None}

\* The resolved columns that give a row: all cells numbers, and something
\* screened or failed
ActiveCols ==
    {c \in ResolvedCols :
        /\ \A r \in DOMAIN args.labels : args.cells[r][c].k = "num"
        /\ LabelSum(Screened, c) > 0 \/ LabelSum(ScreenFailed, c) > 0}

Chronological(rows) ==
    \A i, j \in DOMAIN rows : i < j => DateLE(rows[i]["Month_dt"], rows[j]["Month_dt"])

\* The rows are those of the given columns, one each, in order of month
RowsOfCols(out, columns) ==
    IF columns = {} THEN out = None
    ELSE /\ out # None
         /\ Len(out.rows) = Cardinality(columns)
         /\ \A c \in columns : \E i \in DOMAIN out.rows : out.rows[i] \in MonthRowsOf(c)
         /\ Chronological(out.rows)

\* C24: with the three statuses resolved and a header that names a month,
\* the result has one row for every month column, with the column's sums
\* over the Screened, Screen Failed and Randomized rows and the rate
\* 100 * failed / screened (0 when nothing was screened), in order of month
C24_RowPerMonth ==
    (ScreeningReturned("months") /\ ResolvedCols # {}) =>
        RowsOfCols(result.out, ResolvedCols)

\* What holds: the same for the month columns whose cells are all numbers
\* and that have something screened or failed
C24_RowPerActiveMonth ==
    (ScreeningReturned("months") /\ ResolvedCols # {}) =>
        RowsOfCols(result.out, ActiveCols)

\* Feb-2025 with nothing screened or failed, Dec-2024 with counts: one row
C24_Witness ==
    /\ ScreeningReturned("months")
    /\ args.headers = <<"Feb-2025", "Dec-2024">>
    /\ args.pattern = "idle month"
    /\ result.out # None
    /\ Len(result.out.rows) = 1
    /\ result.out.rows[1]["Month"] = Txt(chars["Dec-2024"])

\* The numeric candidate columns of a fallback file, in file order
NumericHeaders ==
    SelectSeq(args.headers, LAMBDA h : h # FallbackHeaders[IF args.text_col = 0 THEN 16
                                                            ELSE args.text_col])

\* C25: with no header that parses, the numeric candidate columns get
\* stamps that are distinct and increase in file order, and the rows of the
\* result are in file order, for any number of columns
C25_SyntheticMonthsInFileOrder ==
    (ScreeningReturned("fallback") /\ result.out # None) =>
        LET rows == result.out.rows
        IN  /\ [i \in DOMAIN rows |-> rows[i]["Month"]]
                   = [i \in DOMAIN NumericHeaders |-> Txt(chars[NumericHeaders[i]])]
            /\ \A i, j \in DOMAIN rows :
                   i < j => DateLT(rows[i]["Month_dt"], rows[j]["Month_dt"])

\* What holds: the same for up to twelve numeric columns
C25_UpToTwelveColumns ==
    (ScreeningReturned("fallback") /\ result.out # None /\ Len(NumericHeaders) <= 12) =>
        LET rows == result.out.rows
        IN  /\ [i \in DOMAIN rows |-> rows[i]["Month"]]
                   = [i \in DOMAIN NumericHeaders |-> Txt(chars[NumericHeaders[i]])]
            /\ \A i, j \in DOMAIN rows :
                   i < j => DateLT(rows[i]["Month_dt"], rows[j]["Month_dt"])

\* Thirteen numeric columns: the thirteenth has the stamp of the first and
\* its row comes before the row of the second
C25_Witness ==
    /\ ScreeningReturned("fallback")
    /\ Len(args.headers) = 13
    /\ args.text_col = 0
    /\ result.out # None
    /\ Len(result.out.rows) = 13
    /\ result.out.rows[3]["Month"] = Txt(chars["V02"])
    /\ {result.out.rows[1]["Month"], result.out.rows[2]["Month"]}
           = {Txt(chars["V01"]), Txt(chars["V13"])}
    /\ result.out.rows[1]["Month_dt"] = result.out.rows[2]["Month_dt"]

----------------------------------------------------------------------------
(* The grouped rates of the screening tab and of the COSL rollup *)

\* The float infinity of the given sign
Inf(sign) == [k |-> "inf", n |-> sign, s |-> <<>>]

NotFinite == {NaN, Inf(1), Inf(-1)}

\* A division that gives 0 for a zero divisor
true_divide_pct_guarded(num, den) == IF den # 0 THEN Rat(100 * num, den) ELSE Rat(0, 1)

\* num / den * 100 on two numeric Series, one element: a zero divisor
\* raises nothing and gives NaN for 0 / 0, an infinity otherwise
true_divide_pct(num, den) ==
    IF den # 0 THEN Rat(100 * num, den)
    ELSE IF num = 0 THEN NaN
    ELSE Inf(IF num > 0 THEN 1 ELSE -1)

\* Series.round(1) on one element, in tenths: the possible results
round1(v) == IF v \in NotFinite THEN {v} ELSE {Tenths(t) : t \in round(10 * v.n, v.d)}

\* Series.fillna(0) on one element: an infinity is not a missing value
fillna_zero(v) == IF v = NaN THEN Rat(0, 1) ELSE v

RatAdd(a, b) == Rat(a.n * b.d + b.n * a.d, a.d * b.d)

RECURSIVE RatSum(_)
RatSum(values) ==
    IF values = <<>> THEN Rat(0, 1) ELSE RatAdd(Head(values), RatSum(Tail(values)))

\* Series.mean() of rates: NaN cells are skipped
mean_rate(values) ==
    LET present == SelectSeq(values, LAMBDA v : v # NaN)
        finite == SelectSeq(present, LAMBDA v : v \notin NotFinite)
    IN  IF present = <<>> THEN NaN
        ELSE IF Inf(1) \in Range(present) /\ Inf(-1) \in Range(present) THEN NaN
        ELSE IF Inf(1) \in Range(present) THEN Inf(1)
        ELSE IF Inf(-1) \in Range(present) THEN Inf(-1)
        ELSE Rat(RatSum(finite).n, RatSum(finite).d * Len(finite))

\* The key cells of the model's tables in the order a sort gives them
SortedKeyCells ==
    <<Num(1), Num(2), Num(3), Txt(<<"1">>), Txt(<<"2">>), Txt(<<"3">>), Txt(<<"CA">>),
      Txt(<<"Evelina Pogoriler">>), Txt(<<"Jayden Cho">>), Txt(<<"US">>)>>

\* The groups of df.groupby(by): the key tuples present, sorted, a null key
\* dropped
group_keys(df, by) ==
    LET n == Len(SortedKeyCells)
        tuple(i) == [k \in DOMAIN by |->
                        IF k = 1 THEN SortedKeyCells[((i - 1) \div n) + 1]
                        ELSE SortedKeyCells[((i - 1) % n) + 1]]
        all == [i \in 1..(IF Len(by) = 1 THEN n ELSE n * n) |->
                   IF Len(by) = 1 THEN <<SortedKeyCells[i]>> ELSE tuple(i)]
    IN  SelectSeq(all, LAMBDA t : \E r \in Range(df.rows) :
                                      \A k \in DOMAIN by : r[by[k]] = t[k])

\* df.groupby(by).agg(sum of each column of cols).reset_index()
groupby_sum(df, by, cols) ==
    LET keys == group_keys(df, by)
        group(t) == DataFrame(df.cols,
                              SelectSeq(df.rows,
                                        LAMBDA r : \A k \in DOMAIN by : r[by[k]] = t[k]))
    IN  DataFrame(by \o cols,
                  [i \in DOMAIN keys |->
                      [c \in Range(by) \cup Range(cols) |->
                          IF c \in Range(cols) THEN Num(Sum(group(keys[i]), c))
                          ELSE keys[i][CHOOSE k \in DOMAIN by : by[k] = c]]])

\* df[name] = (df[num] / df[den] * 100).round(1): the possible frames
with_rate(df, name, num, den) ==
    LET rate(i) == round1(true_divide_pct(df.rows[i][num].n, df.rows[i][den].n))
    IN  {SetCol(df, name, values) :
            values \in {v \in [DOMAIN df.rows -> UNION {rate(i) : i \in DOMAIN df.rows}] :
                           \A i \in DOMAIN df.rows : v[i] \in rate(i)}}

CountCols == <<"Screened", "Screen Failed", "Randomized">>

\* The country table of the screening tab
country_sf(enrollment_data) ==
    UNION {with_rate(df, "Randomization Rate", "Randomized", "Screened") :
           df \in with_rate(groupby_sum(enrollment_data, <<"Country">>, CountCols),
                            "Screen Failure Rate", "Screen Failed", "Screened")}

\* The site table of the screening tab
site_sf(enrollment_data) ==
    with_rate(groupby_sum(enrollment_data, <<"Site ID", "Country">>, CountCols),
              "Screen Failure Rate", "Screen Failed", "Screened")

\* The per-site rates the rollup by lead starts from
cosl_site_rates(enrollment_data) ==
    LET site_metrics == groupby_sum(enrollment_data, <<"Site ID">>, CountCols)
        rated == SetCol(site_metrics, "Screen Failure Rate",
                        [i \in DOMAIN site_metrics.rows |->
                            fillna_zero(true_divide_pct(
                                site_metrics.rows[i]["Screen Failed"].n,
                                site_metrics.rows[i]["Screened"].n))])
    IN  RenameCol(astype_str(rated, "Site ID"), "Site ID", "Site Number")

\* The statements of the try block (lines 273-324) that raise KeyError: the
\* aggregation of a Randomized column that is not there, the Site Number
\* and Assigned COSL columns of the assignment table, the COSL column of
\* the rollup
cosl_rates_raise(cosl_metrics, cosl_data, enrollment_data) ==
    \/ ~HasCol(enrollment_data, "Randomized")
    \/ ~HasCol(cosl_data, "Site Number")
    \/ ~HasCol(cosl_data, "Assigned COSL")
    \/ ~HasCol(cosl_metrics, "COSL")

\* The rollup with the mean Screen Failure Rate of each lead's sites; an
\* exception in the try block shows a warning and returns the rollup as it
\* was handed in
calculate_cosl_screen_failure_rates(cosl_metrics, cosl_data, enrollment_data) ==
    IF \E c \in {"Site ID", "Screened", "Screen Failed"} : ~HasCol(enrollment_data, c)
    THEN cosl_metrics
    ELSE IF cosl_rates_raise(cosl_metrics, cosl_data, enrollment_data)
    THEN cosl_metrics
    ELSE LET cosl_site_metrics ==
                 merge_left(cosl_site_rates(enrollment_data),
                            astype_str(cosl_data, "Site Number"), "Site Number")
             leads == group_keys(cosl_site_metrics, <<"Assigned COSL">>)
             rate_of(cosl) ==
                 IF <<cosl>> \in Range(leads)
                 THEN mean_rate(Column(Where(cosl_site_metrics, "Assigned COSL", cosl),
                                       "Screen Failure Rate"))
                 ELSE NaN
         IN  SetCol(cosl_metrics, "Screen Failure Rate",
                    [i \in DOMAIN cosl_metrics.rows |->
                        rate_of(cosl_metrics.rows[i]["COSL"])])

MaxRateSites == 2

RateLeadPatterns == {"one lead", "two leads"}

RateLead(pattern, i) ==
    IF pattern = "two leads" /\ i % 2 = 0 THEN Txt(<<"Evelina Pogoriler">>)
    ELSE Txt(<<"Jayden Cho">>)

InitGroupedRates ==
    /\ today = 1
    /\ session_state = init_session_state(Now)
    /\ last_run = NoRun
    /\ \E n \in 0..MaxRateSites, pattern \in RateLeadPatterns :
           \E countries \in [1..n -> {US, Txt(<<"CA">>)}],
              screened \in [1..n -> {0, 3}],
              failed \in [1..n -> {0, 1}],
              randomized \in [1..n -> {0, 1}] :
               LET leads == [i \in 1..n |-> RateLead(pattern, i)]
               IN  args = [f |-> "grouped_rates",
                           countries |-> countries, screened |-> screened,
                           failed |-> failed, leads |-> leads,
                           enrollment_data |->
                               process_enrollment_data(
                                   DataFrame(EnrollmentCols,
                                             [i \in 1..n |->
                                                 EnrollmentRow(Num(i), countries[i],
                                                               Num(screened[i]),
                                                               Num(failed[i]),
                                                               Num(randomized[i]))])).val,
                           cosl_data |-> LeadAssignments(leads),
                           cosl_metrics |->
                               calculate_cosl_metrics(
                                   cosl_site_view(LeadAssignments(leads),
                                                  LeadSites([i \in 1..n |-> Date(20099)],
                                                            [i \in 1..n |-> NaN])))]
    /\ result = NoCall

\* The two grouped tables of render_screening_tab
CallScreeningRates ==
    /\ args.f = "grouped_rates"
    /\ result = NoCall
    /\ \E country \in country_sf(args.enrollment_data),
          site \in site_sf(args.enrollment_data) :
           result' = [f |-> "render_screening_tab", tables |-> <<country, site>>]
    /\ UNCHANGED <<session_state, last_run, today, args>>

CallCoslRates ==
    /\ args.f = "grouped_rates"
    /\ result = NoCall
    /\ result' = [f |-> "calculate_cosl_screen_failure_rates",
                  tables |-> <<calculate_cosl_screen_failure_rates(
                                   args.cosl_metrics, args.cosl_data,
                                   args.enrollment_data)>>]
    /\ UNCHANGED <<session_state, last_run, today, args>>

NextGroupedRates == CallScreeningRates \/ CallCoslRates

SpecGroupedRates == InitGroupedRates /\ [][NextGroupedRates]_vars

RatesReturned ==
    /\ args.f = "grouped_rates"
    /\ result # NoCall
    /\ result.f \in {"render_screening_tab", "calculate_cosl_screen_failure_rates"}

\* The rate columns of a grouped table
RateCols(df) == Range(df.cols) \cap {"Screen Failure Rate", "Randomization Rate"}

\* The summed Screened of the group a row of a grouped table is for
GroupScreened(row) ==
    IF "COSL" \in DOMAIN row
    THEN SumSeq([i \in DOMAIN args.leads |->
                    IF args.leads[i] = row["COSL"] THEN Num(args.screened[i]) ELSE Num(0)])
    ELSE row["Screened"].n

IsZeroRate(v) == v = Tenths(0) \/ ("d" \in DOMAIN v /\ v.n = 0)

\* C26: in the tables by country, by site and by lead every rate is a
\* finite number, and the rates of a group whose summed Screened is 0 are 0
\* whatever the numerator
C26_GroupedRatesZeroGuarded ==
    RatesReturned =>
        \A t \in DOMAIN result.tables :
            \A i \in DOMAIN result.tables[t].rows :
                \A c \in RateCols(result.tables[t]) :
                    LET row == result.tables[t].rows[i]
                    IN  /\ row[c] \notin NotFinite
                        /\ GroupScreened(row) = 0 => IsZeroRate(row[c])

\* What holds: no call fails, the rates of a group with something screened
\* are finite, and the rate by lead is 0 for a lead whose sites have
\* nothing screened and nothing failed
C26_RatesOfScreenedGroups ==
    RatesReturned =>
        \A t \in DOMAIN result.tables :
            \A i \in DOMAIN result.tables[t].rows :
                \A c \in RateCols(result.tables[t]) :
                    LET row == result.tables[t].rows[i]
                    IN  /\ GroupScreened(row) > 0 /\ "COSL" \notin DOMAIN row
                               => row[c] \notin NotFinite
                        /\ ("COSL" \in DOMAIN row /\
                            \A j \in DOMAIN args.leads :
                                args.leads[j] = row["COSL"]
                                    => args.screened[j] = 0 /\ args.failed[j] = 0)
                               => IsZeroRate(row[c])

\* One site with nothing screened and nothing failed: the country's rate
\* is NaN
C26_Witness ==
    /\ RatesReturned
    /\ result.f = "render_screening_tab"
    /\ args.screened = <<0>>
    /\ args.failed = <<0>>
    /\ result.tables[1].rows[1]["Screened"] = Num(0)
    /\ result.tables[1].rows[1]["Screen Failure Rate"] = NaN

\* One site with nothing screened and one failed: the lead's rate is
\* infinite
C26_LeadWitness ==
    /\ RatesReturned
    /\ result.f = "calculate_cosl_screen_failure_rates"
    /\ args.screened = <<0>>
    /\ args.failed = <<1>>
    /\ result.tables[1].rows[1]["Screen Failure Rate"] = Inf(1)

----------------------------------------------------------------------------
(* The generated flag over the generate actions *)

PublishedSlots ==
    {"enrollment_data", "monthly_data", "activation_data", "site_data", "cosl_data",
     "screen_failure_rate", "enrollment_projections"}

\* C28: after any generate action, successful, failed by an exception or
\* stopped for a missing file, dashboard_generated = True goes with seven
\* slots that are all set, and a dashboard_generated that was True is still
\* True
C28_GeneratedMeansPublished ==
    [][/\ session_state'.dashboard_generated
              => \A slot \in PublishedSlots : session_state'[slot] # None
       /\ session_state.dashboard_generated => session_state'.dashboard_generated]_vars

\* A generation that failed with an exception after one that succeeded
C28_Witness ==
    /\ session_state.dashboard_generated
    /\ last_run.shown = "error"
    /\ \A slot \in PublishedSlots : session_state[slot] # None

----------------------------------------------------------------------------
(* main(): one run of the script, with the rendering *)

\* The overview cards (app.py:257-309), KeyError for a timeline without
\* the Site Number or Site Status column
render_overview_metrics(S, target_enrollment) ==
    IF S.activation_data # None /\
       (~HasCol(S.activation_data, "Site Number") \/ ~HasCol(S.activation_data, "Site Status"))
    THEN {Raise("KeyError")}
    ELSE {Ok([total_sites |->
                  IF S.activation_data = None THEN 0
                  ELSE Len(unique(Column(S.activation_data, "Site Number"))),
              active_sites |->
                  IF S.activation_data = None THEN 0
                  ELSE Cardinality({i \in DOMAIN S.activation_data.rows :
                                       is_active(S.activation_data.rows[i]["Site Status"])}),
              screenings_needed |-> needed,
              target_enrollment |-> target_enrollment]) :
          needed \in overview_screenings_needed(target_enrollment, S.screen_failure_rate)}

\* What render_cosl_performance_tab leaves in the session state: the Site
\* Number columns of the two tables it was handed, converted in place
render_cosl_performance_tab(S) ==
    IF S.cosl_data = None \/ S.activation_data = None THEN S
    ELSE IF ~HasCol(S.activation_data, "Site Number") THEN S
    ELSE IF ~HasCol(S.cosl_data, "Site Number")
    THEN [S EXCEPT !.activation_data = astype_str(S.activation_data, "Site Number")]
    ELSE [S EXCEPT !.activation_data = astype_str(S.activation_data, "Site Number"),
                   !.cosl_data = astype_str(S.cosl_data, "Site Number")]

\* render_enrollment_tab: what it raises, outside any try. With a monthly
\* table, actual_enrollment is a local even when it is None, and
\* len(actual_enrollment) (enrollment_tab.py:75) then raises TypeError;
\* with month rows, a projection table without the Month column raises
\* KeyError (enrollment_tab.py:48)
render_enrollment_tab(S) ==
    IF S.monthly_data = None THEN Ok(TRUE)
    ELSE LET actual_enrollment == extract_monthly_enrollment(S.monthly_data)
         IN  IF ~actual_enrollment.ok THEN actual_enrollment
             ELSE IF actual_enrollment.val = None THEN Raise("TypeError")
             ELSE IF actual_enrollment.val.rows = <<>> THEN Ok(TRUE)
             ELSE IF S.enrollment_projections # None
                     /\ ~HasCol(S.enrollment_projections, "Month")
             THEN Raise("KeyError")
             ELSE Ok(TRUE)

\* render_site_activation_tab: what it raises, outside any try. The
\* filters sort the values of Country and of Site Status
\* (site_activation_tab.py:126, 130): text next to a missing value or a
\* number raises TypeError
render_site_activation_tab(S, now) ==
    LET out == calculate_site_metrics(S.activation_data, Timestamp(now, 0))
        mixed(c) == \E i, j \in DOMAIN out.val.site_data.rows :
                        /\ out.val.site_data.rows[i][c].k = "str"
                        /\ out.val.site_data.rows[j][c].k # "str"
    IN  IF S.activation_data = None THEN Ok(TRUE)
        ELSE IF ~out.ok THEN Raise(out.val)
        ELSE IF ~HasCol(out.val.site_data, "Country") THEN Raise("KeyError")
        ELSE IF mixed("Country") \/ mixed("Site Status") THEN Raise("TypeError")
        ELSE Ok(TRUE)

\* The rendering part of main (app.py:349-379): the overview, then the four
\* tabs; an exception outside a try ends the run there
render_dashboard(S, target_enrollment, now) ==
    {IF ~overview.ok THEN [state |-> S, overview |-> None]
     ELSE IF ~render_enrollment_tab(S).ok
     THEN [state |-> S, overview |-> overview.val]
     ELSE IF ~render_site_activation_tab(S, now).ok
     THEN [state |-> S, overview |-> overview.val]
     ELSE [state |-> render_cosl_performance_tab(S), overview |-> overview.val] :
     overview \in render_overview_metrics(S, target_enrollment)}

\* main() after process_data, if it was called: the dashboard is rendered
\* when it is flagged as generated
main_render(S, target_enrollment, now) ==
    IF S.dashboard_generated THEN render_dashboard(S, target_enrollment, now)
    ELSE {[state |-> S, overview |-> None]}

SiteText ==
    DataFrame(SiteCols, <<SiteRow(Site007, Date(20089)), SiteRow(Txt(<<"1", "2">>), NaN)>>)

SessionEnrollmentFiles == {File(EnrollmentA), File(EnrollmentB)}
\* MonthlyA with the counts of one month
MonthlyJan == SetCol(MonthlyA, "Jan-2025", [i \in DOMAIN MonthlyA.rows |-> Num(i)])

SessionMonthlyFiles == {None, File(MonthlyA), File(MonthlyJan)}
SessionSiteFiles == {File(SiteA), File(SiteText), File(DropCol(SiteA, "Site Number"))}

InitSession ==
    /\ today = 1
    /\ session_state = init_session_state(Now)
    /\ last_run = NoRun
    /\ args = NoCall
    /\ result = NoCall

\* A run of main with the Generate button pressed
RunGenerate ==
    \E enrollment_file \in SessionEnrollmentFiles, monthly_file \in SessionMonthlyFiles,
       site_file \in SessionSiteFiles, target_enrollment \in 1..MaxTarget,
       projection_end \in ProjectionEnds, sf_rate_override \in Overrides :
        \E out \in process_data(session_state, enrollment_file, monthly_file,
                                site_file, target_enrollment, projection_end,
                                sf_rate_override, Now) :
            \E shown \in main_render(out.state, target_enrollment, MetricsClock[today]) :
                /\ session_state' = shown.state
                /\ last_run' = [ret |-> out.ret, shown |-> out.shown,
                                published |-> out.state]
                /\ args' = [f |-> "main", generate_button |-> TRUE,
                            target_enrollment |-> target_enrollment,
                            sf_rate_override |-> sf_rate_override]
                /\ result' = [f |-> "main", overview |-> shown.overview]
                /\ UNCHANGED today

\* A run of main for any other interaction: a changed input in the sidebar
Rerun ==
    \E target_enrollment \in 1..MaxTarget, sf_rate_override \in Overrides :
        \E shown \in main_render(session_state, target_enrollment, MetricsClock[today]) :
            /\ session_state' = shown.state
            /\ args' = [f |-> "main", generate_button |-> FALSE,
                        target_enrollment |-> target_enrollment,
                        sf_rate_override |-> sf_rate_override]
            /\ result' = [f |-> "main", overview |-> shown.overview]
            /\ UNCHANGED <<last_run, today>>

NextSession == RunGenerate \/ Rerun

SpecSession == InitSession /\ [][NextSession]_vars

TableSlots ==
    {"enrollment_data", "monthly_data", "activation_data", "site_data", "cosl_data",
     "enrollment_projections"}

\* C27: after a successful generation every table of the session state is
\* as process_data published it, columns, cells and cell types, however
\* often the dashboard was rendered since
C27_RenderingReadOnly ==
    last_run.ret => \A slot \in TableSlots : session_state[slot] = last_run.published[slot]

\* What holds: the same for every table but cosl_data
C27_OtherTablesReadOnly ==
    last_run.ret =>
        \A slot \in TableSlots \ {"cosl_data"} :
            session_state[slot] = last_run.published[slot]

\* Monthly file with the month Jan-2025, site master file with the site
\* number 12 as a number: the assignment table was published with the
\* number 12 and holds the text "12"
C27_Witness ==
    /\ last_run.ret
    /\ HasCol(session_state.monthly_data, "Jan-2025")
    /\ result # NoCall
    /\ result.overview # None
    /\ last_run.published.cosl_data.rows[2]["Site Number"] = Num(12)
    /\ session_state.cosl_data.rows[2]["Site Number"] = Txt(<<"1", "2">>)

\* The overview card was shown and the projection table has rows
OverviewShown ==
    /\ result # NoCall
    /\ result.f = "main"
    /\ result.overview # None
    /\ session_state.enrollment_projections # None
    /\ session_state.enrollment_projections.rows # <<>>

\* C29: whenever the overview card is shown, after any runs with or without
\* Generate and with any target and override in the sidebar, its Monthly
\* Screenings Needed is the Screenings Needed of every row of the
\* projection table
C29_OverviewMatchesProjections ==
    OverviewShown =>
        \A i \in DOMAIN session_state.enrollment_projections.rows :
            session_state.enrollment_projections.rows[i]["Screenings Needed"]
                = Num(result.overview.screenings_needed)

\* What holds: the two agree in the run that generated the table, when the
\* rate has no more than one decimal and the quotient is at no tie
C29_AgreeInGeneratingRun ==
    (/\ OverviewShown
     /\ args.generate_button
     /\ last_run.ret
     /\ (10 * session_state.screen_failure_rate.n) % session_state.screen_failure_rate.d = 0
     /\ Cardinality(screenings_needed(args.target_enrollment,
                                      session_state.screen_failure_rate)) = 1) =>
        \A i \in DOMAIN session_state.enrollment_projections.rows :
            session_state.enrollment_projections.rows[i]["Screenings Needed"]
                = Num(result.overview.screenings_needed)

\* Generated with target 1 and the override 100, then the target set to 2
\* without Generate: the card shows 10, the table holds 5
C29_Witness ==
    /\ OverviewShown
    /\ ~args.generate_button
    /\ args.target_enrollment = 2
    /\ result.overview.screenings_needed = 10
    /\ session_state.enrollment_projections.rows[1]["Screenings Needed"] = Num(5)

----------------------------------------------------------------------------
(* Screenings Needed against the target *)

\* C30: for a monthly target >= 1 and a rate >= 0, below, at or above 100,
\* the Screenings Needed of every projection row is at least the target
C30_NeededAtLeastTarget ==
    ProjectionsReturned =>
        \A i \in DOMAIN result.out.rows :
            result.out.rows[i]["Screenings Needed"].n >= args.target_enrollment

\* Rate 0: the rows hold the target itself
C30_Witness ==
    /\ ProjectionsReturned
    /\ args.screen_failure_rate = Rat(0, 1)
    /\ args.target_enrollment = 2
    /\ Len(result.out.rows) = 2
    /\ \A i \in DOMAIN result.out.rows : result.out.rows[i]["Screenings Needed"] = Num(2)

====
